---------------------------- MODULE Spec2Model ----------------------------
(***************************************************************************)
(* A model of the PyRaf interpreter: the runtime environment (runtime.py), *)
(* the tree-walking evaluator (interpreter.py), the bytecode compiler      *)
(* (compiler.py, bytecode.py) and the stack VM (vm.py).                    *)
(*                                                                         *)
(* Programs are abstract syntax trees (ast.py); every node keeps the       *)
(* <<line, col>> of the token the evaluator uses for diagnostics.          *)
(***************************************************************************)
EXTENDS Integers, Sequences, FiniteSets, TLC

VARIABLES
    prog,       \* the main program: a sequence of statements (List[A.Stmt])
    mainFile,   \* the file the main program was read from (<<>>: none)
    interp,     \* the Interpreter instance and the position of its run loop
    vm,         \* the VM instance and the position of its run loop
    envs,       \* a heap of Env objects driven directly (runtime.py)
    lastOp,     \* the last Env operation applied to envs, with its outcome
    front       \* the front end driven directly: its input, what lex and the parser made of it

vars == <<prog, mainFile, interp, vm, envs, lastOp, front>>

(***************************************************************************)
(* Bounds of the model.                                                    *)
(***************************************************************************)
MaxEnvs == 3        \* Env objects created when Env is driven directly
MaxFuel == 6        \* loop iterations, user calls and file loads of one top-level statement
MaxSteps == 120      \* iterations of the VM's run loop allowed to one run

Min(S) == CHOOSE x \in S : \A y \in S : x <= y

(***************************************************************************)
(* Runtime values.  Every value is a record [t, v]; the tag t is compared  *)
(* before the payload v.                                                   *)
(***************************************************************************)
IntV(n) == [t |-> "int", v |-> n]
BoolV(b) == [t |-> "bool", v |-> b]
NoneV == [t |-> "none", v |-> 0]
StrV(s) == [t |-> "str", v |-> s]           \* s: a sequence of characters
ListV(s) == [t |-> "list", v |-> s]         \* s: a sequence of values
BuiltinV(n) == [t |-> "builtin", v |-> n]   \* ("builtin", fn)
FloatV(n, d) == [t |-> "float", v |-> <<n, d>>]

(***************************************************************************)
(* runtime.py: Env.  An Env object is heap[e] = [parent, values]; parent   *)
(* 0 is None.  Each operator takes the heap and returns the new heap (and  *)
(* whether RuntimeError_ was raised).                                      *)
(***************************************************************************)
EmptyValues == [n \in {} |-> NoneV]

\* Env(parent): __post_init__ gives the new object an empty mapping
NewEnv(h, parent) == Append(h, [parent |-> parent, values |-> EmptyValues])

Bind(m, name, value) ==
    [n \in (DOMAIN m) \cup {name} |-> IF n = name THEN value ELSE m[n]]

define(h, e, name, value) ==
    [h EXCEPT ![e].values = Bind(h[e].values, name, value)]

RECURSIVE get(_, _, _)
get(h, e, name) ==
    IF name \in DOMAIN h[e].values
    THEN [ok |-> TRUE, val |-> h[e].values[name]]
    ELSE IF h[e].parent # 0
         THEN get(h, h[e].parent, name)
         ELSE [ok |-> FALSE, val |-> NoneV]

\* a plausible slip: set writes into the environment it is called on
set_local(h, e, name, value) ==
    [ok |-> TRUE, heap |-> define(h, e, name, value)]

RECURSIVE set(_, _, _, _)
set(h, e, name, value) ==
    IF name \in DOMAIN h[e].values
    THEN [ok |-> TRUE, heap |-> [h EXCEPT ![e].values[name] = value]]
    ELSE IF h[e].parent # 0
         THEN set(h, h[e].parent, name, value)
         ELSE [ok |-> FALSE, heap |-> h]

(***************************************************************************)
(* Host (Python) semantics of the values, as both back ends use them.      *)
(* A host operation yields [status, val, exc]: status "ok" with a value,   *)
(* or "crash" with the name of the Python exception it raises (which is    *)
(* not a PyRafError).  "Unmodelled" marks an operand combination whose     *)
(* Python result this model does not compute (floats, string ordering).    *)
(***************************************************************************)
HostOk(v) == [status |-> "ok", val |-> v, exc |-> ""]
HostRaise(e) == [status |-> "crash", val |-> NoneV, exc |-> e]

IsNum(v) == v.t \in {"int", "bool"}      \* bool is a subclass of int
NumOf(v) == IF v.t = "bool" THEN (IF v.v THEN 1 ELSE 0) ELSE v.v
IsSeqV(v) == v.t \in {"str", "list"}

\* Interpreter.truthy: bool(v)
truthy(v) ==
    CASE v.t = "none" -> FALSE
      [] v.t = "bool" -> v.v
      [] v.t = "int" -> v.v # 0
      [] v.t = "float" -> v.v[1] # 0
      [] v.t \in {"str", "list"} -> v.v # <<>>
      [] OTHER -> TRUE

DigitChars == <<"0", "1", "2", "3", "4", "5", "6", "7", "8", "9">>

RECURSIVE NatText(_)
NatText(n) ==
    IF n < 10 THEN <<DigitChars[n + 1]>>
    ELSE NatText(n \div 10) \o <<DigitChars[(n % 10) + 1]>>

IntText(n) == IF n < 0 THEN <<"-">> \o NatText(-n) ELSE NatText(n)

RECURSIVE JoinTexts(_, _)
JoinTexts(ts, sep) ==
    IF ts = <<>> THEN <<>>
    ELSE IF Len(ts) = 1 THEN ts[1]
    ELSE ts[1] \o sep \o JoinTexts(Tail(ts), sep)

\* str(v) and repr(v): the characters print writes for v
RECURSIVE Text(_, _)
Text(v, isRepr) ==
    CASE v.t = "int" -> IntText(v.v)
      [] v.t = "bool" -> IF v.v THEN <<"T", "r", "u", "e">>
                         ELSE <<"F", "a", "l", "s", "e">>
      [] v.t = "none" -> <<"N", "o", "n", "e">>
      [] v.t = "str" -> IF isRepr THEN <<"'">> \o v.v \o <<"'">> ELSE v.v
      [] v.t = "list" ->
            <<"[">> \o JoinTexts([i \in DOMAIN v.v |-> Text(v.v[i], TRUE)],
                                 <<",", " ">>) \o <<"]">>
      [] v.t = "fn" -> <<"Function(", v.v.name, ")">>
      [] v.t = "vmfn" -> <<"VMFunction(">> \o v.v.name \o <<")">>
      [] v.t = "builtin" -> <<"('builtin', ", v.v, ")">>
      [] OTHER -> <<"float(", ToString(v.v[1]), "/", ToString(v.v[2]), ")">>

\* b_print: print(*args) writes the arguments separated by one space
PrintLine(args) == JoinTexts([i \in DOMAIN args |-> Text(args[i], FALSE)], <<" ">>)

RECURSIVE Repeat(_, _)
Repeat(s, n) == IF n <= 0 THEN <<>> ELSE s \o Repeat(s, n - 1)

\* Python's a % b for integers: the result takes the sign of b
PyMod(a, b) == IF b > 0 THEN a % b ELSE -((-a) % (-b))

RECURSIVE PyEq(_, _)
PyEq(a, b) ==
    IF IsNum(a) /\ IsNum(b) THEN NumOf(a) = NumOf(b)
    ELSE IF a.t # b.t THEN FALSE
    ELSE CASE a.t = "none" -> TRUE
           [] a.t = "str" -> a.v = b.v
           [] a.t = "builtin" -> a.v = b.v
           [] a.t = "list" ->
                 /\ Len(a.v) = Len(b.v)
                 /\ \A i \in DOMAIN a.v : PyEq(a.v[i], b.v[i])
           [] OTHER -> a = b

\* the host operators the two back ends apply: left + right, left < right, ...
BinOp(k, a, b) ==
    LET nums == IsNum(a) /\ IsNum(b)
        x == NumOf(a)
        y == NumOf(b)
        floats == a.t = "float" \/ b.t = "float"
    IN
    CASE k = "EQEQ" -> IF floats \/ a.t \in {"fn", "vmfn"} THEN HostRaise("Unmodelled")
                       ELSE HostOk(BoolV(PyEq(a, b)))
      [] k = "NEQ" -> IF floats \/ a.t \in {"fn", "vmfn"} THEN HostRaise("Unmodelled")
                      ELSE HostOk(BoolV(~PyEq(a, b)))
      [] floats -> HostRaise("Unmodelled")
      [] k = "PLUS" ->
            IF nums THEN HostOk(IntV(x + y))
            ELSE IF a.t = b.t /\ IsSeqV(a) THEN HostOk([t |-> a.t, v |-> a.v \o b.v])
            ELSE HostRaise("TypeError")
      [] k = "MINUS" -> IF nums THEN HostOk(IntV(x - y)) ELSE HostRaise("TypeError")
      [] k = "STAR" ->
            IF nums THEN HostOk(IntV(x * y))
            ELSE IF IsSeqV(a) /\ IsNum(b) THEN HostOk([t |-> a.t, v |-> Repeat(a.v, y)])
            ELSE IF IsNum(a) /\ IsSeqV(b) THEN HostOk([t |-> b.t, v |-> Repeat(b.v, x)])
            ELSE HostRaise("TypeError")
      [] k = "SLASH" ->
            IF ~nums THEN HostRaise("TypeError")
            ELSE IF y = 0 THEN HostRaise("ZeroDivisionError")
            ELSE HostOk(FloatV(x, y))
      [] k = "PERCENT" ->
            IF a.t = "str" THEN HostRaise("Unmodelled")
            ELSE IF ~nums THEN HostRaise("TypeError")
            ELSE IF y = 0 THEN HostRaise("ZeroDivisionError")
            ELSE HostOk(IntV(PyMod(x, y)))
      [] k \in {"LT", "LTE", "GT", "GTE"} ->
            IF nums THEN HostOk(BoolV(CASE k = "LT" -> x < y
                                        [] k = "LTE" -> x <= y
                                        [] k = "GT" -> x > y
                                        [] OTHER -> x >= y))
            ELSE IF a.t = b.t /\ IsSeqV(a) THEN HostRaise("Unmodelled")
            ELSE HostRaise("TypeError")
      [] OTHER -> HostRaise("Unmodelled")

\* -right
NegOp(v) ==
    IF IsNum(v) THEN HostOk(IntV(-NumOf(v)))
    ELSE IF v.t = "float" THEN HostOk(FloatV(-v.v[1], v.v[2]))
    ELSE HostRaise("TypeError")

\* target[idx] for an integer idx: Python counts a negative index from the end
IndexOp(target, idx) ==
    IF ~IsSeqV(target) THEN HostRaise("TypeError")
    ELSE LET n == Len(target.v)
             i == NumOf(idx)
             j == IF i < 0 THEN i + n ELSE i
         IN IF j < 0 \/ j >= n THEN HostRaise("IndexError")
            ELSE HostOk(IF target.t = "str" THEN StrV(<<target.v[j + 1]>>)
                        ELSE target.v[j + 1])

\* len(args[0])
LenOp(v) == IF IsSeqV(v) THEN HostOk(IntV(Len(v.v))) ELSE HostRaise("TypeError")

(***************************************************************************)
(* ast.py: the nodes.  A token is kept as <<line, col>>; an absent token   *)
(* or node (None) is NoTok / Absent.                                       *)
(***************************************************************************)
NoTok == <<>>
Absent == [k |-> "None"]

Number(n, tok) == [k |-> "Number", value |-> IntV(n), tok |-> tok]
String(s, tok) == [k |-> "String", value |-> StrV(s), tok |-> tok]
Bool(b, tok) == [k |-> "Bool", value |-> BoolV(b), tok |-> tok]
NoneLit(tok) == [k |-> "NoneLit", tok |-> tok]
Var(name, tok) == [k |-> "Var", name |-> name, tok |-> tok]
Unary(op, optok, right) == [k |-> "Unary", op |-> op, optok |-> optok, right |-> right]
Binary(left, op, optok, right) ==
    [k |-> "Binary", left |-> left, op |-> op, optok |-> optok, right |-> right]
Call(callee, lparen, args) ==
    [k |-> "Call", callee |-> callee, lparen |-> lparen, args |-> args]
ListLit(lbracket, items) == [k |-> "ListLit", lbracket |-> lbracket, items |-> items]
Index(target, lbracket, index) ==
    [k |-> "Index", target |-> target, lbracket |-> lbracket, index |-> index]

ExprStmt(expr) == [k |-> "ExprStmt", expr |-> expr]
Assign(name, nametok, value) ==
    [k |-> "Assign", name |-> name, nametok |-> nametok, value |-> value]
Import(path_tok, path) == [k |-> "Import", path_tok |-> path_tok, path |-> path]
Block(lbrace, statements) == [k |-> "Block", lbrace |-> lbrace, statements |-> statements]
If(if_tok, cond, then_branch, else_branch) ==
    [k |-> "If", if_tok |-> if_tok, cond |-> cond, then_branch |-> then_branch,
     else_branch |-> else_branch]
While(while_tok, cond, body) ==
    [k |-> "While", while_tok |-> while_tok, cond |-> cond, body |-> body]
Return(return_tok, value) == [k |-> "Return", return_tok |-> return_tok, value |-> value]
Def(def_tok, name, nametok, params, body) ==
    [k |-> "Def", def_tok |-> def_tok, name |-> name, nametok |-> nametok,
     params |-> params, body |-> body]

(***************************************************************************)
(* tokens.py and lexer.py.  A source text is its sequence of characters,   *)
(* and so is a lexeme; a token kind is the name of the TokenKind member.   *)
(***************************************************************************)
TokenKind ==
    {"LPAREN", "RPAREN", "LBRACE", "RBRACE", "LBRACKET", "RBRACKET", "COMMA", "SEMI",
     "PLUS", "MINUS", "STAR", "SLASH", "PERCENT",
     "EQ", "EQEQ", "NEQ", "LT", "LTE", "GT", "GTE",
     "IDENT", "NUMBER", "STRING",
     "IF", "ELSE", "WHILE", "DEF", "RETURN", "TRUE", "FALSE", "NONE",
     "AND", "OR", "NOT", "EOF"}

Token(kind, lexeme, line, col) ==
    [kind |-> kind, lexeme |-> lexeme, line |-> line, col |-> col]
TokPos(t) == <<t.line, t.col>>

\* the members of TokenKind the two dict literals of lexer.py name
KEYWORDS ==
    (<<"i", "f">> :> "IF") @@ (<<"e", "l", "s", "e">> :> "ELSE")
    @@ (<<"w", "h", "i", "l", "e">> :> "WHILE") @@ (<<"d", "e", "f">> :> "DEF")
    @@ (<<"r", "e", "t", "u", "r", "n">> :> "RETURN") @@ (<<"t", "r", "u", "e">> :> "TRUE")
    @@ (<<"f", "a", "l", "s", "e">> :> "FALSE") @@ (<<"n", "o", "n", "e">> :> "NONE")
    @@ (<<"a", "n", "d">> :> "AND") @@ (<<"o", "r">> :> "OR") @@ (<<"n", "o", "t">> :> "NOT")
    @@ (<<"i", "m", "p", "o", "r", "t">> :> "IMPORT")
SINGLE ==
    [ch \in {"(", ")", "{", "}", "[", "]", ",", ";", "+", "-", "*", "/", "%"} |->
        CASE ch = "(" -> "LPAREN" [] ch = ")" -> "RPAREN"
          [] ch = "{" -> "LBRACE" [] ch = "}" -> "RBRACE"
          [] ch = "[" -> "LBRACKET" [] ch = "]" -> "RBRACKET"
          [] ch = "," -> "COMMA" [] ch = ";" -> "SEMI"
          [] ch = "+" -> "PLUS" [] ch = "-" -> "MINUS"
          [] ch = "*" -> "STAR" [] ch = "/" -> "SLASH"
          [] OTHER -> "PERCENT"]

\* executing lexer.py (import pyraf.lexer): evaluating TokenKind.X for a name
\* X that is no member of the enum raises AttributeError
import_lexer ==
    IF \A w \in DOMAIN KEYWORDS : KEYWORDS[w] \in TokenKind THEN "ok" ELSE "AttributeError"

\* str.isdigit, str.isalpha, str.isalnum on the characters of the model
Digits == {"0", "1", "2", "3", "4", "5", "6", "7", "8", "9"}
Letters ==
    {"a", "b", "c", "d", "e", "f", "g", "h", "i", "j", "k", "l", "m", "n", "o", "p", "q",
     "r", "s", "t", "u", "v", "w", "x", "y", "z"}
isdigit(ch) == ch \in Digits
isalpha(ch) == ch \in Letters
isalnum(ch) == isalpha(ch) \/ isdigit(ch)

LexOk(tokens) == [status |-> "ok", tokens |-> tokens, line |-> 0, col |-> 0, msg |-> ""]
LexErr(line, col, msg) ==
    [status |-> "LexError", tokens |-> <<>>, line |-> line, col |-> col, msg |-> msg]

\* the comment loop: i moves to the next "\n" or to the end
RECURSIVE comment_end(_, _)
comment_end(src, i) ==
    IF i < Len(src) /\ src[i + 1] # "\n" THEN comment_end(src, i + 1) ELSE i

\* the string loop, from the character after the opening quote
RECURSIVE scan_string(_, _, _, _, _)
scan_string(src, i, line, col, value) ==
    IF ~(i < Len(src) /\ src[i + 1] # "\"")
    THEN [i |-> i, line |-> line, col |-> col, value |-> value]
    ELSE IF src[i + 1] = "\\" /\ i + 1 < Len(src)
         THEN LET esc == src[i + 2]
                  ch == CASE esc = "n" -> "\n" [] esc = "t" -> "\t" [] OTHER -> esc
              IN scan_string(src, i + 2, line, col + 2, Append(value, ch))
         ELSE IF src[i + 1] = "\n"
              THEN scan_string(src, i + 1, line + 1, 1, Append(value, "\n"))
              ELSE scan_string(src, i + 1, line, col + 1, Append(value, src[i + 1]))

\* the number loop: digits, and one "."
RECURSIVE number_end(_, _, _)
number_end(src, j, has_dot) ==
    IF j < Len(src) /\ (isdigit(src[j + 1]) \/ (src[j + 1] = "." /\ ~has_dot))
    THEN number_end(src, j + 1, has_dot \/ src[j + 1] = ".")
    ELSE j

\* the identifier loop
RECURSIVE ident_end(_, _)
ident_end(src, j) ==
    IF j < Len(src) /\ (isalnum(src[j + 1]) \/ src[j + 1] = "_") THEN ident_end(src, j + 1)
    ELSE j

Slice(src, i, j) == SubSeq(src, i + 1, j)       \* src[i:j]
PairKinds ==
    (<<"=", "=">> :> "EQEQ") @@ (<<"!", "=">> :> "NEQ") @@ (<<"<", "=">> :> "LTE")
    @@ (<<">", "=">> :> "GTE")
OneKinds == ("=" :> "EQ") @@ ("<" :> "LT") @@ (">" :> "GT")

\* what one iteration of the while loop of lex leaves in i, line, col, tokens
Lexing(i, line, col, tokens) ==
    [status |-> "lexing", i |-> i, line |-> line, col |-> col, tokens |-> tokens]

\* one iteration from a character that is no white space: a comment, a
\* string, a number, a word, an operator, or the LexError it raises
scan_token(src, i, line, col, tokens) ==
    LET ch == src[i + 1] IN
    IF ch = "/" /\ i + 1 < Len(src) /\ src[i + 2] = "/"
    THEN LET skip(j) == Lexing(j, line, col + (j - i), tokens)
         IN skip(comment_end(src, i))
    ELSE IF ch = "\""
    THEN LET close(s) ==
                 IF s.i >= Len(src) THEN LexErr(line, col, "Unterminated string literal")
                 ELSE Lexing(s.i + 1, s.line, s.col + 1,
                             Append(tokens, Token("STRING", s.value, line, col)))
         IN close(scan_string(src, i + 1, line, col + 1, <<>>))
    ELSE IF isdigit(ch)
    THEN LET number(j) ==
                 Lexing(j, line, col + (j - i),
                        Append(tokens, Token("NUMBER", Slice(src, i, j), line, col)))
         IN number(number_end(src, i, FALSE))
    ELSE IF isalpha(ch) \/ ch = "_"
    THEN LET word(text) ==
                 Lexing(i + Len(text), line, col + Len(text),
                        Append(tokens,
                               Token(IF text \in DOMAIN KEYWORDS THEN KEYWORDS[text]
                                     ELSE "IDENT", text, line, col)))
         IN word(Slice(src, i, ident_end(src, i)))
    ELSE IF i + 1 < Len(src) /\ Slice(src, i, i + 2) \in DOMAIN PairKinds
    THEN Lexing(i + 2, line, col + 2,
                Append(tokens, Token(PairKinds[Slice(src, i, i + 2)],
                                     Slice(src, i, i + 2), line, col)))
    ELSE IF ch \in DOMAIN OneKinds
    THEN Lexing(i + 1, line, col + 1, Append(tokens, Token(OneKinds[ch], <<ch>>, line, col)))
    ELSE IF ch \in DOMAIN SINGLE
    THEN Lexing(i + 1, line, col + 1, Append(tokens, Token(SINGLE[ch], <<ch>>, line, col)))
    ELSE LexErr(line, col, "Unexpected character")

\* a lexer that closes every line with an EOF token
lex_iteration_eof_per_line(src, i, line, col, tokens) ==
    IF src[i + 1] \in {" ", "\t", "\r"} THEN Lexing(i + 1, line, col + 1, tokens)
    ELSE IF src[i + 1] = "\n"
    THEN Lexing(i + 1, line + 1, 1, Append(tokens, Token("EOF", <<>>, line, col)))
    ELSE scan_token(src, i, line, col, tokens)

\* the body of the while loop of lex, run once
lex_iteration(src, i, line, col, tokens) ==
    IF src[i + 1] \in {" ", "\t", "\r"} THEN Lexing(i + 1, line, col + 1, tokens)
    ELSE IF src[i + 1] = "\n" THEN Lexing(i + 1, line + 1, 1, tokens)
    ELSE scan_token(src, i, line, col, tokens)

\* tokens.append(Token(TokenKind.EOF, "", line, col)); return tokens
lex_return(line, col, tokens) == LexOk(Append(tokens, Token("EOF", <<>>, line, col)))

\* the while loop of lex, and the EOF token appended after it
RECURSIVE lex_loop(_, _, _, _, _)
lex_loop(src, i, line, col, tokens) ==
    IF ~(i < Len(src)) THEN lex_return(line, col, tokens)
    ELSE LET next(r) == IF r.status = "LexError" THEN r
                        ELSE lex_loop(src, r.i, r.line, r.col, r.tokens)
         IN next(lex_iteration(src, i, line, col, tokens))

\* lexer.py: lex
lex(src) == lex_loop(src, 0, 1, 1, <<>>)

\* from pyraf.lexer import lex; lex(src)
import_and_lex(src) ==
    IF import_lexer = "ok" THEN lex(src)
    ELSE [status |-> import_lexer, tokens |-> <<>>, line |-> 0, col |-> 0, msg |-> ""]

(***************************************************************************)
(* parser.py.  The parser's position self.i is passed along; a parsing     *)
(* method yields [status, node, i]: the node it returns and the position   *)
(* it leaves, or the ParseError it raises with the token it reports.       *)
(***************************************************************************)
POk(node, i) == [status |-> "ok", node |-> node, i |-> i, line |-> 0, col |-> 0, msg |-> ""]
PErr(t, msg) ==
    [status |-> "ParseError", node |-> Absent, i |-> 0, line |-> t.line, col |-> t.col,
     msg |-> msg]
PThen(r, rest(_)) == IF r.status = "ok" THEN rest(r) ELSE r

Parser_peek(toks, i) == toks[i + 1]
prev(toks, i) == IF i = 0 THEN toks[Len(toks)] ELSE toks[i]
at_end(toks, i) == Parser_peek(toks, i).kind = "EOF"
\* the position after advance(); the token it returns is prev
advance(toks, i) == IF ~at_end(toks, i) THEN i + 1 ELSE i
check(toks, i, kind) == Parser_peek(toks, i).kind = kind
expect(toks, i, kind, msg) ==
    IF check(toks, i, kind) THEN POk(prev(toks, advance(toks, i)), advance(toks, i))
    ELSE PErr(Parser_peek(toks, i), msg)

\* every binary operator at one level
PRECEDENCE_one_level ==
    [kind \in {"OR", "AND", "EQEQ", "NEQ", "LT", "LTE", "GT", "GTE", "PLUS", "MINUS",
               "STAR", "SLASH", "PERCENT"} |-> 1]

PRECEDENCE ==
    [kind \in {"OR", "AND", "EQEQ", "NEQ", "LT", "LTE", "GT", "GTE", "PLUS", "MINUS",
               "STAR", "SLASH", "PERCENT"} |->
        CASE kind = "OR" -> 1
          [] kind = "AND" -> 2
          [] kind \in {"EQEQ", "NEQ"} -> 3
          [] kind \in {"LT", "LTE", "GT", "GTE"} -> 4
          [] kind \in {"PLUS", "MINUS"} -> 5
          [] OTHER -> 6]

\* int(lexeme) and float(lexeme) for the lexemes of NUMBER tokens; a float is
\* kept as <<numerator, denominator>>
DigitValue ==
    ("0" :> 0) @@ ("1" :> 1) @@ ("2" :> 2) @@ ("3" :> 3) @@ ("4" :> 4) @@ ("5" :> 5)
    @@ ("6" :> 6) @@ ("7" :> 7) @@ ("8" :> 8) @@ ("9" :> 9)
RECURSIVE int_of(_)
int_of(lexeme) ==
    IF lexeme = <<>> THEN 0
    ELSE 10 * int_of(SubSeq(lexeme, 1, Len(lexeme) - 1)) + DigitValue[lexeme[Len(lexeme)]]
RECURSIVE Pow10(_)
Pow10(n) == IF n = 0 THEN 1 ELSE 10 * Pow10(n - 1)
IsDigitChar(ch) == ch \in DOMAIN DigitValue
float_of(lexeme) ==
    LET dot == CHOOSE k \in DOMAIN lexeme : lexeme[k] = "."
    IN FloatV(int_of(SelectSeq(lexeme, IsDigitChar)), Pow10(Len(lexeme) - dot))

RECURSIVE parse_precedence(_, _, _)
RECURSIVE parse_suffixes(_, _, _, _)
RECURSIVE prefix(_, _)
RECURSIVE expression_list(_, _, _)

\* Parser.expression
expression(toks, i) == parse_precedence(toks, i, 0)

\* items.append(self.expression()); while self.match(COMMA): items.append(...)
expression_list(toks, i, items) ==
    PThen(expression(toks, i),
          LAMBDA r : IF check(toks, r.i, "COMMA")
                     THEN expression_list(toks, advance(toks, r.i), Append(items, r.node))
                     ELSE POk(Append(items, r.node), r.i))

\* the arguments of a call or the items of a list literal, up to the closing token
expressions_until(toks, i, closing) ==
    IF check(toks, i, closing) THEN POk(<<>>, i) ELSE expression_list(toks, i, <<>>)

\* Parser.prefix
prefix(toks, i) ==
    LET tok == Parser_peek(toks, i)
        t == prev(toks, advance(toks, i))
        i1 == advance(toks, i)
    IN
    CASE tok.kind = "NUMBER" ->
            IF \E k \in DOMAIN t.lexeme : t.lexeme[k] = "."
            THEN POk([k |-> "Number", value |-> float_of(t.lexeme), tok |-> TokPos(t)], i1)
            ELSE POk(Number(int_of(t.lexeme), TokPos(t)), i1)
      [] tok.kind = "STRING" -> POk(String(t.lexeme, TokPos(t)), i1)
      [] tok.kind = "TRUE" -> POk(Bool(TRUE, TokPos(t)), i1)
      [] tok.kind = "FALSE" -> POk(Bool(FALSE, TokPos(t)), i1)
      [] tok.kind = "NONE" -> POk(NoneLit(TokPos(t)), i1)
      [] tok.kind = "IDENT" -> POk(Var(t.lexeme, TokPos(t)), i1)
      [] tok.kind = "LBRACKET" ->
            PThen(expressions_until(toks, i1, "RBRACKET"),
                  LAMBDA items :
                      PThen(expect(toks, items.i, "RBRACKET", "Expected ']' after list literal"),
                            LAMBDA e : POk(ListLit(TokPos(t), items.node), e.i)))
      [] tok.kind = "LPAREN" ->
            PThen(expression(toks, i1),
                  LAMBDA expr :
                      PThen(expect(toks, expr.i, "RPAREN", "Expected ')' after expression"),
                            LAMBDA e : POk(expr.node, e.i)))
      [] tok.kind \in {"MINUS", "NOT"} ->
            PThen(parse_precedence(toks, i1, 7),
                  LAMBDA right : POk(Unary(t.kind, TokPos(t), right.node), right.i))
      [] OTHER -> PErr(tok, <<"Expected expression, got", tok.kind>>)

\* the while True loop of parse_precedence, with expr parsed so far
parse_suffixes(toks, i, expr, min_prec) ==
    IF check(toks, i, "LPAREN")
    THEN PThen(expressions_until(toks, advance(toks, i), "RPAREN"),
               LAMBDA args :
                   PThen(expect(toks, args.i, "RPAREN", "Expected ')' after arguments"),
                         LAMBDA e : parse_suffixes(toks, e.i,
                                                   Call(expr, TokPos(Parser_peek(toks, i)), args.node),
                                                   min_prec)))
    ELSE IF check(toks, i, "LBRACKET")
    THEN PThen(expression(toks, advance(toks, i)),
               LAMBDA idx :
                   PThen(expect(toks, idx.i, "RBRACKET", "Expected ']' after index"),
                         LAMBDA e : parse_suffixes(toks, e.i,
                                                   Index(expr, TokPos(Parser_peek(toks, i)), idx.node),
                                                   min_prec)))
    ELSE IF Parser_peek(toks, i).kind \notin DOMAIN PRECEDENCE
            \/ PRECEDENCE[Parser_peek(toks, i).kind] < min_prec
    THEN POk(expr, i)
    ELSE PThen(parse_precedence(toks, advance(toks, i), PRECEDENCE[Parser_peek(toks, i).kind] + 1),
               LAMBDA right :
                   parse_suffixes(toks, right.i,
                                  Binary(expr, Parser_peek(toks, i).kind, TokPos(Parser_peek(toks, i)),
                                         right.node),
                                  min_prec))

\* Parser.parse_precedence
parse_precedence(toks, i, min_prec) ==
    PThen(prefix(toks, i), LAMBDA expr : parse_suffixes(toks, expr.i, expr.node, min_prec))

RECURSIVE statement(_, _)
RECURSIVE block_statements(_, _, _, _)

\* the while loop of Parser.block and what follows it
block_statements(toks, i, lbrace, stmts) ==
    IF check(toks, i, "RBRACE")
    THEN PThen(expect(toks, i, "RBRACE", "Expected '}' after block"),
               LAMBDA e : POk(Block(TokPos(lbrace), stmts), e.i))
    ELSE IF at_end(toks, i) THEN PErr(Parser_peek(toks, i), "Unterminated block (missing '}')")
    ELSE PThen(statement(toks, i),
               LAMBDA s : block_statements(toks, s.i, lbrace, Append(stmts, s.node)))

\* Parser.block
Parser_block(toks, i) ==
    PThen(expect(toks, i, "LBRACE", "Expected '{' to start block"),
          LAMBDA lbrace : block_statements(toks, lbrace.i, lbrace.node, <<>>))

\* Parser.if_stmt; i is the position after the if token
if_stmt(toks, i, if_tok) ==
    PThen(expect(toks, i, "LPAREN", "Expected '(' after if"), LAMBDA lp :
    PThen(expression(toks, lp.i), LAMBDA cond :
    PThen(expect(toks, cond.i, "RPAREN", "Expected ')' after if condition"), LAMBDA rp :
    PThen(Parser_block(toks, rp.i), LAMBDA then_branch :
        IF check(toks, then_branch.i, "ELSE")
        THEN PThen(Parser_block(toks, advance(toks, then_branch.i)),
                   LAMBDA else_branch :
                       POk(If(TokPos(if_tok), cond.node, then_branch.node, else_branch.node),
                           else_branch.i))
        ELSE POk(If(TokPos(if_tok), cond.node, then_branch.node, Absent),
                 then_branch.i)))))

\* Parser.while_stmt
while_stmt(toks, i, w_tok) ==
    PThen(expect(toks, i, "LPAREN", "Expected '(' after while"), LAMBDA lp :
    PThen(expression(toks, lp.i), LAMBDA cond :
    PThen(expect(toks, cond.i, "RPAREN", "Expected ')' after while condition"), LAMBDA rp :
    PThen(Parser_block(toks, rp.i), LAMBDA body :
        POk(While(TokPos(w_tok), cond.node, body.node), body.i)))))

\* params.append(self.expect(IDENT, ...)); while self.match(COMMA): ...
RECURSIVE parameter_list(_, _, _)
parameter_list(toks, i, params) ==
    PThen(expect(toks, i, "IDENT", "Expected parameter name"),
          LAMBDA p : IF check(toks, p.i, "COMMA")
                     THEN parameter_list(toks, advance(toks, p.i), Append(params, p.node.lexeme))
                     ELSE POk(Append(params, p.node.lexeme), p.i))

\* Parser.def_stmt
def_stmt(toks, i, d_tok) ==
    PThen(expect(toks, i, "IDENT", "Expected function name after def"), LAMBDA name :
    PThen(expect(toks, name.i, "LPAREN", "Expected '(' after function name"), LAMBDA lp :
    PThen(IF check(toks, lp.i, "RPAREN") THEN POk(<<>>, lp.i)
          ELSE parameter_list(toks, lp.i, <<>>), LAMBDA params :
    PThen(expect(toks, params.i, "RPAREN", "Expected ')' after parameters"), LAMBDA rp :
    PThen(Parser_block(toks, rp.i), LAMBDA body :
        POk(Def(TokPos(d_tok), name.node.lexeme, TokPos(name.node), params.node, body.node),
            body.i))))))

\* Parser.return_stmt
return_stmt(toks, i, r_tok) ==
    IF check(toks, i, "SEMI") THEN POk(Return(TokPos(r_tok), Absent), advance(toks, i))
    ELSE PThen(expression(toks, i), LAMBDA val :
         PThen(expect(toks, val.i, "SEMI", "Expected ';' after return value"), LAMBDA e :
             POk(Return(TokPos(r_tok), val.node), e.i)))

\* Parser.statement
statement(toks, i) ==
    CASE check(toks, i, "IF") -> if_stmt(toks, advance(toks, i), Parser_peek(toks, i))
      [] check(toks, i, "WHILE") -> while_stmt(toks, advance(toks, i), Parser_peek(toks, i))
      [] check(toks, i, "DEF") -> def_stmt(toks, advance(toks, i), Parser_peek(toks, i))
      [] check(toks, i, "RETURN") -> return_stmt(toks, advance(toks, i), Parser_peek(toks, i))
      [] check(toks, i, "IDENT") /\ toks[i + 2].kind = "EQ" ->
            PThen(expect(toks, i, "IDENT", "Expected identifier"), LAMBDA name :
            PThen(expect(toks, name.i, "EQ", "Expected '='"), LAMBDA eq :
            PThen(expression(toks, eq.i), LAMBDA value :
            PThen(expect(toks, value.i, "SEMI", "Expected ';' after assignment"), LAMBDA e :
                POk(Assign(name.node.lexeme, TokPos(name.node), value.node), e.i)))))
      [] OTHER ->
            PThen(expression(toks, i), LAMBDA expr :
            PThen(expect(toks, expr.i, "SEMI", "Expected ';' after expression"), LAMBDA e :
                POk(ExprStmt(expr.node), e.i)))

\* Parser.parse_program
RECURSIVE parse_statements(_, _, _)
parse_statements(toks, i, stmts) ==
    IF at_end(toks, i) THEN POk(stmts, i)
    ELSE PThen(statement(toks, i),
               LAMBDA s : parse_statements(toks, s.i, Append(stmts, s.node)))
parse_program(toks) == parse_statements(toks, 0, <<>>)

(***************************************************************************)
(* Paths and files.  A path is its sequence of components; an absolute     *)
(* path starts with "/".  The interpreter process runs in Cwd.             *)
(***************************************************************************)
Cwd == <<"/", "p">>
LibDir == <<"/", "p", "lib">>

isabs(path) == path # <<>> /\ path[1] = "/"

RECURSIVE NormParts(_, _)
NormParts(done, rest) ==
    IF rest = <<>> THEN done
    ELSE LET c == Head(rest) IN
         IF c = "." THEN NormParts(done, Tail(rest))
         ELSE IF c = ".."
              THEN IF done # <<>> /\ done[Len(done)] \notin {"/", ".."}
                   THEN NormParts(SubSeq(done, 1, Len(done) - 1), Tail(rest))
                   ELSE IF done # <<>> /\ done[Len(done)] = "/"
                        THEN NormParts(done, Tail(rest))
                        ELSE NormParts(Append(done, c), Tail(rest))
              ELSE NormParts(Append(done, c), Tail(rest))

\* os.path.normpath, os.path.join and os.path.dirname
normpath(path) == NormParts(<<>>, path)
join(base, path) == IF isabs(path) THEN path ELSE base \o path
dirname(path) == SubSeq(path, 1, Len(path) - 1)

\* the file the operating system opens for a path
OsFile(path) == normpath(join(Cwd, path))

(***************************************************************************)
(* The files on disk.  Files[path] is what lex and Parser.parse_program    *)
(* make of the file's text: its statements, or the LexError / ParseError   *)
(* they raise.                                                             *)
(***************************************************************************)
P(l, c) == <<l, c>>

PrintOf(l, arg) == ExprStmt(Call(Var("print", P(l, 1)), P(l, 6), <<arg>>))
ImportOf(l, path) == Import(P(l, 8), path)

\* def sq(x) { return x * x; }
DefSq(l) ==
    Def(P(l, 1), "sq", P(l, 5), <<"x">>,
        Block(P(l, 11), <<Return(P(l, 13),
                                 Binary(Var("x", P(l, 20)), "STAR", P(l, 22),
                                        Var("x", P(l, 24))))>>))

ParsedFile(stmts) == [kind |-> "ok", prog |-> stmts]
BadFile(exc) == [kind |-> exc, prog |-> <<>>]

FileA == <<"/", "p", "a.raf">>
FileB == <<"/", "p", "b.raf">>
FileBad == <<"/", "p", "bad.raf">>
FileLex == <<"/", "p", "lex.raf">>
FileM == <<"/", "p", "lib", "m.raf">>
FileN == <<"/", "p", "lib", "n.raf">>

FilePaths == {FileA, FileB, FileBad, FileLex, FileM, FileN}

Files ==
    [f \in FilePaths |->
        CASE f = FileA ->       \* import "b.raf"; print("a");
                ParsedFile(<<ImportOf(1, <<"b.raf">>),
                             PrintOf(2, String(<<"a">>, P(2, 7)))>>)
          [] f = FileB ->       \* print("b"); import "a.raf";
                ParsedFile(<<PrintOf(1, String(<<"b">>, P(1, 7))),
                             ImportOf(2, <<"a.raf">>)>>)
          [] f = FileM ->       \* def sq(x) { return x * x; } print("m");
                ParsedFile(<<DefSq(1),
                             PrintOf(2, String(<<"m">>, P(2, 7)))>>)
          [] f = FileN ->       \* import "m.raf"; print(sq(2)); print(u);
                ParsedFile(<<ImportOf(1, <<"m.raf">>),
                             PrintOf(2, Call(Var("sq", P(2, 7)), P(2, 9),
                                             <<Number(2, P(2, 10))>>)),
                             PrintOf(3, Var("u", P(3, 7)))>>)
          [] f = FileLex ->     \* print("a
                BadFile("LexError")
          [] OTHER ->           \* x = ;
                BadFile("ParseError")]

\* os.path.exists(full_path)
exists(path) == OsFile(path) \in FilePaths

\* lex(mod_src) and Parser(tokens, mod_src).parse_program() on the file's text
ParseModule(path) == Files[OsFile(path)]

(***************************************************************************)
(* interpreter.py: the tree-walking evaluator.                             *)
(*                                                                         *)
(* The Interpreter object is a record st:                                  *)
(*   envs      the heap of Env objects; Globals is self.globals            *)
(*   out       the lines print has written                                 *)
(*   frames    self._frames: <<name, line, col>> per active user call      *)
(*   imported  self._imported                                              *)
(*   src, base_dir   self.src (the path of the text) and self.base_dir     *)
(*   fuel      loop iterations, calls and loads left to the statement      *)
(* and history kept for the properties:                                    *)
(*   loads     how often each file was read by an import                   *)
(*   execs     how often each file's statements were run                   *)
(*   log       the statements, loop tests, returns and call exits in order *)
(*   active    the ids of the active user-function invocations             *)
(*   ninv      the number of invocations started                           *)
(*   blocks    if/while/block bodies entered in the current invocation     *)
(*                                                                         *)
(* Evaluation yields [st, status, val, err, origin, exc]: status "ok", or  *)
(* the exception that is propagating: "RuntimeError_" (err: its message),  *)
(* "ReturnSignal" (val: its value), "LexError"/"ParseError", "HostError"   *)
(* (exc: the Python exception, not a PyRafError), or "fuel" when the run   *)
(* exceeds the model's bound.                                              *)
(***************************************************************************)
Globals == 1
MainSrc == <<"<main>">>

Ok(st, v) ==
    [st |-> st, status |-> "ok", val |-> v, err |-> <<>>, origin |-> <<>>, exc |-> ""]
Raise(st, text) ==
    [st |-> st, status |-> "RuntimeError_", val |-> NoneV,
     err |-> <<[i |-> "text", text |-> text]>>,
     origin |-> st.frames, exc |-> ""]
Throw(st, status, exc) ==
    [st |-> st, status |-> status, val |-> NoneV, err |-> <<>>, origin |-> <<>>,
     exc |-> exc]
Signal(st, v) ==
    [st |-> st, status |-> "ReturnSignal", val |-> v, err |-> <<>>, origin |-> <<>>,
     exc |-> ""]
Host(st, h) == IF h.status = "ok" THEN Ok(st, h.val) ELSE Throw(st, "HostError", h.exc)

\* sequencing in Python: what follows a call runs only if the call returned;
\* an exception the call raised propagates instead
Then(r, rest(_)) == IF r.status = "ok" THEN rest(r) ELSE r

Reverse(s) == [i \in 1..Len(s) |-> s[Len(s) + 1 - i]]

\* errors.format_error: "[line L, col C] msg", the source line, the caret
format_error(src, tok, msg) ==
    <<[i |-> "header", line |-> tok[1], col |-> tok[2]]>> \o msg
    \o <<[i |-> "snippet", src |-> src, line |-> tok[1], col |-> tok[2]]>>

\* Interpreter._format_stacktrace
format_stacktrace(frames) ==
    IF frames = <<>> THEN <<>>
    ELSE <<[i |-> "trace", frames |-> Reverse(frames)]>>

\* the except RuntimeError_ clause of exec_stmt and of eval_expr
Rewrite(tok, r) ==
    IF r.status # "RuntimeError_" THEN r
    ELSE LET base == IF tok # NoTok THEN format_error(r.st.src, tok, r.err) ELSE r.err
         IN [r EXCEPT !.err = base \o format_stacktrace(r.st.frames)]

\* tok = getattr(expr, "tok") or getattr(expr, "lparen") or getattr(expr, "lbracket")
ExprTok(expr) ==
    CASE expr.k \in {"Number", "String", "Bool", "NoneLit", "Var"} -> expr.tok
      [] expr.k = "Call" -> expr.lparen
      [] expr.k \in {"ListLit", "Index"} -> expr.lbracket
      [] OTHER -> NoTok

\* tok = if_tok or while_tok or return_tok, else the name token
StmtTok(stmt) ==
    CASE stmt.k = "If" -> stmt.if_tok
      [] stmt.k = "While" -> stmt.while_tok
      [] stmt.k = "Return" -> stmt.return_tok
      [] stmt.k \in {"Assign", "Def"} -> stmt.nametok
      [] OTHER -> NoTok

FnV(name, params, body, closure) ==
    [t |-> "fn", v |-> [name |-> name, params |-> params, body |-> body,
                        closure |-> closure]]

\* Interpreter._resolve_import_path
resolve_import_path(base_dir, path) ==
    IF isabs(path) THEN path
    ELSE normpath(join(IF base_dir # <<>> THEN base_dir ELSE Cwd, path))

Cur(st) == IF st.active = <<>> THEN 0 ELSE st.active[Len(st.active)]
Logged(st, ev, v) ==
    [st EXCEPT !.log = Append(@, [ev |-> ev, inv |-> Cur(st), val |-> v,
                                  blocks |-> st.blocks, active |-> st.active])]

RECURSIVE BindParams(_, _, _, _)
BindParams(h, e, params, args) ==
    IF params = <<>> \/ args = <<>> THEN h
    ELSE BindParams(define(h, e, Head(params), Head(args)), e, Tail(params), Tail(args))

\* the built-ins installed by _install_builtins
builtin_call(name, args, st) ==
    IF name = "print"
    THEN Ok([st EXCEPT !.out = Append(@, PrintLine(args))], NoneV)
    ELSE IF Len(args) # 1
         THEN Raise(st, <<"len() expects exactly 1 argument">>)
         ELSE Host(st, LenOp(args[1]))

RECURSIVE eval_expr(_, _, _)
RECURSIVE eval_items(_, _, _)
RECURSIVE exec_stmt(_, _, _)
RECURSIVE exec_stmts(_, _, _)
RECURSIVE while_loop(_, _, _)
RECURSIVE call(_, _, _)

\* Interpreter.exec_block
exec_block(block, env, st) == exec_stmts(block.statements, env, st)

\* a plausible slip: the block runs in the environment of its statement
exec_in_same_env(block, env, st) == exec_block(block, env, st)

\* self.exec_block(block, Env(env)): the block runs in a fresh child environment
exec_in_child(block, env, st) ==
    LET h == NewEnv(st.envs, env)
        r == exec_block(block, Len(h), [st EXCEPT !.envs = h, !.blocks = @ + 1])
    IN [r EXCEPT !.st.blocks = st.blocks]

\* a plausible slip: the call does not intercept ReturnSignal
call_result_uncaught(r) ==
    IF r.status = "ok" THEN Ok(Logged(r.st, "exit", NoneV), NoneV) ELSE r

\* the except ReturnSignal clause of Function.call, and its return None
call_result(r) ==
    IF r.status = "ReturnSignal" THEN Ok(Logged(r.st, "exit", r.val), r.val)
    ELSE IF r.status = "ok" THEN Ok(Logged(r.st, "exit", NoneV), NoneV)
    ELSE r

\* runtime.py: Function.call
call(fn, args, st) ==
    IF Len(args) # Len(fn.params)
    THEN Raise(st, <<fn.name, "() expected", ToString(Len(fn.params)),
                     "args, got", ToString(Len(args))>>)
    ELSE IF st.fuel = 0 THEN Throw(st, "fuel", "")
    ELSE LET h == NewEnv(st.envs, fn.closure)
             local == Len(h)
             st1 == [st EXCEPT !.envs = BindParams(h, local, fn.params, args),
                               !.fuel = @ - 1,
                               !.ninv = @ + 1,
                               !.active = Append(@, st.ninv + 1),
                               !.blocks = 0]
             r == call_result(exec_block(fn.body, local, st1))
         IN [r EXCEPT !.st.active = st.active, !.st.blocks = st.blocks]

\* the for loops of run, run_in_env, exec_block and the Import branch
exec_stmts(stmts, env, st) ==
    IF stmts = <<>> THEN Ok(st, NoneV)
    ELSE Then(exec_stmt(Head(stmts), env, st),
              LAMBDA r : exec_stmts(Tail(stmts), env, r.st))

\* a plausible slip: the path is not recorded
add_nothing(imported, full_path) == imported

\* self._imported.add(full_path)
add(imported, full_path) == imported \cup {full_path}

\* the Import branch of exec_stmt
\* exec_import with the path recorded before the file is looked for
exec_import_add_first(stmt, env, st) ==
    LET full_path == resolve_import_path(st.base_dir, stmt.path) IN
    IF full_path \in st.imported THEN Ok(st, NoneV)
    ELSE IF ~exists(full_path)
         THEN Raise([st EXCEPT !.imported = add(@, full_path)],
                    <<"Import not found:">> \o stmt.path)
    ELSE exec_stmts(ParseModule(full_path).prog, env,
                    [st EXCEPT !.imported = add(@, full_path)])

\* a plausible slip: src and base_dir stay the module's after the import
exec_import_unrestored(stmt, env, st) ==
    LET full_path == resolve_import_path(st.base_dir, stmt.path) IN
    IF full_path \in st.imported THEN Ok(st, NoneV)
    ELSE IF ~exists(full_path) THEN Raise(st, <<"Import not found:">> \o stmt.path)
    ELSE IF st.fuel = 0 THEN Throw(st, "fuel", "")
    ELSE LET st1 == [st EXCEPT !.loads = Append(@, full_path),
                               !.imported = add(@, full_path),
                               !.fuel = @ - 1,
                               !.src = full_path,
                               !.base_dir = dirname(full_path)]
         IN IF ParseModule(full_path).kind # "ok"
            THEN Throw(st1, ParseModule(full_path).kind, "")
            ELSE exec_stmts(ParseModule(full_path).prog, env,
                            [st1 EXCEPT !.execs = Append(@, OsFile(full_path))])

exec_import(stmt, env, st) ==
    LET full_path == resolve_import_path(st.base_dir, stmt.path) IN
    IF full_path \in st.imported THEN Ok(st, NoneV)
    ELSE IF ~exists(full_path) THEN Raise(st, <<"Import not found:">> \o stmt.path)
    ELSE IF st.fuel = 0 THEN Throw(st, "fuel", "")
    ELSE LET st1 == [st EXCEPT !.loads = Append(@, full_path),
                               !.imported = add(@, full_path),
                               !.fuel = @ - 1,
                               !.src = full_path,
                               !.base_dir = dirname(full_path)]
             run_in_env(mod) ==
                 IF mod.kind # "ok" THEN Throw(st1, mod.kind, "")
                 ELSE exec_stmts(mod.prog, env,
                                 [st1 EXCEPT !.execs = Append(@, OsFile(full_path))])
             r == run_in_env(ParseModule(full_path))
         IN [r EXCEPT !.st.src = st.src, !.st.base_dir = st.base_dir]

\* the while statement of the While branch
while_loop(stmt, env, st) ==
    Then(eval_expr(stmt.cond, env, Logged(st, "cond", NoneV)),
         LAMBDA c :
            IF ~truthy(c.val) THEN Ok(c.st, NoneV)
            ELSE IF c.st.fuel = 0 THEN Throw(c.st, "fuel", "")
            ELSE Then(exec_in_child(stmt.body, env, [c.st EXCEPT !.fuel = @ - 1]),
                      LAMBDA r : while_loop(stmt, env, r.st)))

\* a plausible slip: the assignment always binds in the current environment
assign_local(name, value, env, st) ==
    Ok([st EXCEPT !.envs = define(@, env, name, value)], NoneV)

\* the Assign branch after the value: if not env.set(...): env.define(...)
assign(name, value, env, st) ==
    LET s == set(st.envs, env, name, value)
    IN Ok([st EXCEPT !.envs = IF s.ok THEN s.heap ELSE define(@, env, name, value)],
          NoneV)

\* the try block of exec_stmt
exec_stmt_try(stmt, env, st) ==
    CASE stmt.k = "ExprStmt" ->
            Then(eval_expr(stmt.expr, env, st), LAMBDA r : Ok(r.st, NoneV))
      [] stmt.k = "Assign" ->
            Then(eval_expr(stmt.value, env, st),
                 LAMBDA r : assign(stmt.name, r.val, env, r.st))
      [] stmt.k = "Import" -> exec_import(stmt, env, st)
      [] stmt.k = "Block" -> exec_in_child(stmt, env, st)
      [] stmt.k = "If" ->
            Then(eval_expr(stmt.cond, env, st),
                 LAMBDA c :
                    IF truthy(c.val) THEN exec_in_child(stmt.then_branch, env, c.st)
                    ELSE IF stmt.else_branch # Absent
                         THEN exec_in_child(stmt.else_branch, env, c.st)
                         ELSE Ok(c.st, NoneV))
      [] stmt.k = "While" -> while_loop(stmt, env, st)
      [] stmt.k = "Def" ->
            Ok([st EXCEPT !.envs = define(@, env, stmt.name,
                                          FnV(stmt.name, stmt.params, stmt.body, env))],
               NoneV)
      [] stmt.k = "Return" ->
            IF stmt.value = Absent THEN Signal(Logged(st, "return", NoneV), NoneV)
            ELSE Then(eval_expr(stmt.value, env, st),
                      LAMBDA r : Signal(Logged(r.st, "return", r.val), r.val))
      [] OTHER -> Raise(st, <<"Unknown statement type">>)

\* Interpreter.exec_stmt
exec_stmt(stmt, env, st) ==
    Rewrite(StmtTok(stmt), exec_stmt_try(stmt, env, Logged(st, "stmt", NoneV)))

\* [self.eval_expr(e, env) for e in items]
eval_items(items, env, st) ==
    IF items = <<>> THEN Ok(st, <<>>)
    ELSE Then(eval_expr(Head(items), env, st),
              LAMBDA r : Then(eval_items(Tail(items), env, r.st),
                              LAMBDA rest : Ok(rest.st, <<r.val>> \o rest.val)))

\* the Call branch of eval_expr
eval_call(expr, env, st) ==
    Then(eval_expr(expr.callee, env, st),
         LAMBDA c :
            Then(eval_items(expr.args, env, c.st),
                 LAMBDA a :
                    IF c.val.t = "builtin" THEN builtin_call(c.val.v, a.val, a.st)
                    ELSE IF c.val.t = "fn"
                    THEN LET st1 == [a.st EXCEPT !.frames =
                                         Append(@, <<c.val.v.name, expr.lparen[1],
                                                     expr.lparen[2]>>)]
                             r == call(c.val.v, a.val, st1)
                         IN [r EXCEPT !.st.frames = SubSeq(@, 1, Len(@) - 1)]
                    ELSE Raise(a.st, <<"Can only call functions">>)))

\* the short-circuit branches of eval_expr:
\*   return self.eval_expr(expr.right, env) if self.truthy(left) else left
\*   return left if self.truthy(left) else self.eval_expr(expr.right, env)
\* a plausible slip: the short-circuited side is coerced to a boolean
eval_and_coerced(left, expr, env) ==
    IF truthy(left.val) THEN eval_expr(expr.right, env, left.st)
    ELSE [left EXCEPT !.val = BoolV(FALSE)]

eval_and(left, expr, env) ==
    IF truthy(left.val) THEN eval_expr(expr.right, env, left.st) ELSE left
eval_or(left, expr, env) ==
    IF truthy(left.val) THEN left ELSE eval_expr(expr.right, env, left.st)

\* the try block of eval_expr
eval_expr_try(expr, env, st) ==
    CASE expr.k \in {"Number", "String", "Bool"} -> Ok(st, expr.value)
      [] expr.k = "NoneLit" -> Ok(st, NoneV)
      [] expr.k = "Var" ->
            LET g == get(st.envs, env, expr.name)
            IN IF g.ok THEN Ok(st, g.val)
               ELSE Raise(st, <<"Undefined variable", expr.name>>)
      [] expr.k = "ListLit" ->
            Then(eval_items(expr.items, env, st), LAMBDA r : Ok(r.st, ListV(r.val)))
      [] expr.k = "Index" ->
            Then(eval_expr(expr.target, env, st),
                 LAMBDA target :
                    Then(eval_expr(expr.index, env, target.st),
                         LAMBDA idx :
                            IF ~IsNum(idx.val)
                            THEN Raise(idx.st, <<"Index must be an integer">>)
                            ELSE Host(idx.st, IndexOp(target.val, idx.val))))
      [] expr.k = "Unary" ->
            Then(eval_expr(expr.right, env, st),
                 LAMBDA right :
                    IF expr.op = "MINUS" THEN Host(right.st, NegOp(right.val))
                    ELSE IF expr.op = "NOT"
                         THEN Ok(right.st, BoolV(~truthy(right.val)))
                         ELSE Raise(right.st, <<"Unknown unary operator">>))
      [] expr.k = "Binary" ->
            Then(eval_expr(expr.left, env, st),
                 LAMBDA left :
                    IF expr.op = "AND" THEN eval_and(left, expr, env)
                    ELSE IF expr.op = "OR" THEN eval_or(left, expr, env)
                    ELSE Then(eval_expr(expr.right, env, left.st),
                              LAMBDA right :
                                 Host(right.st, BinOp(expr.op, left.val, right.val))))
      [] expr.k = "Call" -> eval_call(expr, env, st)
      [] OTHER -> Raise(st, <<"Unknown expression type">>)

\* Interpreter.eval_expr
eval_expr(expr, env, st) == Rewrite(ExprTok(expr), eval_expr_try(expr, env, st))

\* Interpreter.__init__ with _install_builtins
NewInterpreter(base_dir) ==
    [envs |-> <<[parent |-> 0,
                 values |-> [n \in {"print", "len"} |-> BuiltinV(n)]]>>,
     out |-> <<>>, frames |-> <<>>, imported |-> {}, src |-> MainSrc,
     base_dir |-> base_dir, fuel |-> MaxFuel,
     loads |-> <<>>, execs |-> <<>>, log |-> <<>>, active |-> <<>>, ninv |-> 0,
     blocks |-> 0]

(***************************************************************************)
(* bytecode.py: Chunk and Instr.  Indices into code and consts are the     *)
(* program's, counted from 0; an operand that is None is NoArg.            *)
(***************************************************************************)
\* Optional[int]: None is <<>>, the integer n is <<n>>
NoArg == <<>>
Arg(n) == <<n>>

Instr(op, a, tok) ==
    [op |-> op, a |-> a, line |-> IF tok = NoTok THEN 0 ELSE tok[1],
     col |-> IF tok = NoTok THEN 0 ELSE tok[2]]

NewChunk(name) == [name |-> name, consts |-> <<>>, code |-> <<>>]

\* a constant of the pool that is a name, and the prototype (chunk, params)
NameK(s) == [t |-> "name", v |-> s]
ProtoK(chunk, params) == [t |-> "proto", v |-> [chunk |-> chunk, params |-> params]]

\* a plausible slip: the index returned is the length after the append
add_const_after(chunk, value) ==
    [chunk |-> [chunk EXCEPT !.consts = Append(@, value)],
     idx |-> Len(chunk.consts) + 1]

\* Chunk.add_const: returns the chunk and the index len(consts) - 1
add_const(chunk, value) ==
    [chunk |-> [chunk EXCEPT !.consts = Append(@, value)],
     idx |-> Len(chunk.consts)]

\* Chunk.emit: appends the instruction (its index is len(code) - 1)
emit(chunk, op, a, tok) == [chunk EXCEPT !.code = Append(@, Instr(op, a, tok))]

\* Chunk.patch_arg(ip, a=a)
patch_arg(chunk, ip, a) ==
    [chunk EXCEPT !.code[ip + 1].a = IF a # NoArg THEN a ELSE @]

\* Compiler._emit_jump: a placeholder offset, patched later; the jump's index
emit_jump(chunk, op, tok) ==
    [chunk |-> emit(chunk, op, Arg(0), tok), ip |-> Len(chunk.code)]

\* Compiler._patch_jump_to_here: offset = target - (ip + 1)
patch_jump_to_here(chunk, ip) ==
    LET target == Len(chunk.code)
        offset == target - (ip + 1)
    IN patch_arg(chunk, ip, Arg(offset))

\* Compiler._emit_loop: the jump back, offset = loop_start - (cur + 1)
emit_loop(chunk, loop_start_ip, tok) ==
    LET cur == Len(chunk.code)
        offset == loop_start_ip - (cur + 1)
    IN emit(chunk, "JUMP", Arg(offset), tok)

\* emit(op, self._k(value)) and emit(op, self._name(s))
emit_const(chunk, op, value, tok) ==
    LET k == add_const(chunk, value) IN emit(k.chunk, op, Arg(k.idx), tok)

op_map(k) ==
    CASE k = "PLUS" -> "ADD"
      [] k = "MINUS" -> "SUB"
      [] k = "STAR" -> "MUL"
      [] k = "SLASH" -> "DIV"
      [] k = "PERCENT" -> "MOD"
      [] k = "EQEQ" -> "EQ"
      [] k = "NEQ" -> "NEQ"
      [] k = "LT" -> "LT"
      [] k = "LTE" -> "LTE"
      [] k = "GT" -> "GT"
      [] k = "GTE" -> "GTE"
      [] OTHER -> ""

(***************************************************************************)
(* compiler.py.  Compiling yields [chunk, err]: err is "" or the message   *)
(* of the RuntimeError_ the compiler raised.                               *)
(***************************************************************************)
Compiled(chunk) == [chunk |-> chunk, err |-> ""]
CompileError(chunk, msg) == [chunk |-> chunk, err |-> msg]

\* sequencing in the compiler: what follows a call works on the chunk as the
\* call left it, unless the call raised
ThenEmit(r, rest(_)) == IF r.err # "" THEN r ELSE rest(r.chunk)

RECURSIVE compile_expr(_, _)
RECURSIVE compile_exprs(_, _)
RECURSIVE compile_stmt(_, _)
RECURSIVE compile_stmts(_, _)

\* for item in items: self.expr(item)
compile_exprs(chunk, items) ==
    IF items = <<>> THEN Compiled(chunk)
    ELSE ThenEmit(compile_expr(chunk, Head(items)),
                  LAMBDA c : compile_exprs(c, Tail(items)))

\* the short-circuit branch with the left operand popped before the jump
\* reads it
compile_short_circuit_pop_first(chunk, e, jump_op) ==
    ThenEmit(compile_expr(chunk, e.left),
             LAMBDA l :
                LET j == emit_jump(emit(l, "POP", NoArg, NoTok), jump_op, e.optok)
                IN ThenEmit(compile_expr(j.chunk, e.right),
                            LAMBDA r : Compiled(patch_jump_to_here(r, j.ip))))

\* the short-circuit AND / OR branch of Compiler.expr
compile_short_circuit(chunk, e, jump_op) ==
    ThenEmit(compile_expr(chunk, e.left),
             LAMBDA l :
                LET j == emit_jump(l, jump_op, e.optok)
                IN ThenEmit(compile_expr(emit(j.chunk, "POP", NoArg, NoTok), e.right),
                            LAMBDA r : Compiled(patch_jump_to_here(r, j.ip))))

\* Compiler.expr
compile_expr(chunk, e) ==
    CASE e.k \in {"Number", "String", "Bool"} ->
            Compiled(emit_const(chunk, "CONST", e.value, e.tok))
      [] e.k = "NoneLit" -> Compiled(emit_const(chunk, "CONST", NoneV, e.tok))
      [] e.k = "Var" -> Compiled(emit_const(chunk, "LOAD", NameK(e.name), e.tok))
      [] e.k = "ListLit" ->
            ThenEmit(compile_exprs(chunk, e.items),
                     LAMBDA c : Compiled(emit(c, "BUILD_LIST", Arg(Len(e.items)),
                                              e.lbracket)))
      [] e.k = "Index" ->
            ThenEmit(compile_exprs(chunk, <<e.target, e.index>>),
                     LAMBDA c : Compiled(emit(c, "INDEX", NoArg, e.lbracket)))
      [] e.k = "Unary" ->
            ThenEmit(compile_expr(chunk, e.right),
                     LAMBDA c :
                        IF e.op = "MINUS" THEN Compiled(emit(c, "NEG", NoArg, e.optok))
                        ELSE IF e.op = "NOT"
                             THEN Compiled(emit(c, "NOT", NoArg, e.optok))
                             ELSE CompileError(c, "Compiler: unknown unary op"))
      [] e.k = "Binary" ->
            IF e.op = "AND" THEN compile_short_circuit(chunk, e, "JUMP_IF_FALSE")
            ELSE IF e.op = "OR" THEN compile_short_circuit(chunk, e, "JUMP_IF_TRUE")
            ELSE ThenEmit(compile_exprs(chunk, <<e.left, e.right>>),
                          LAMBDA c :
                             IF op_map(e.op) = ""
                             THEN CompileError(c, "Compiler: unknown binary op")
                             ELSE Compiled(emit(c, op_map(e.op), NoArg, e.optok)))
      [] e.k = "Call" ->
            ThenEmit(compile_exprs(chunk, <<e.callee>> \o e.args),
                     LAMBDA c : Compiled(emit(c, "CALL", Arg(Len(e.args)), e.lparen)))
      [] OTHER -> CompileError(chunk, "Compiler: unsupported expression")

\* for st in statements: self.stmt(st)
compile_stmts(chunk, stmts) ==
    IF stmts = <<>> THEN Compiled(chunk)
    ELSE ThenEmit(compile_stmt(chunk, Head(stmts)),
                  LAMBDA c : compile_stmts(c, Tail(stmts)))

\* the implicit return: emit(CONST, _k(None)); emit(RET)
emit_implicit_return(chunk) ==
    emit(emit_const(chunk, "CONST", NoneV, NoTok), "RET", NoArg, NoTok)

\* the If branch of Compiler.stmt
compile_if(chunk, s) ==
    ThenEmit(compile_expr(chunk, s.cond),
             LAMBDA c :
                LET j_if_false == emit_jump(c, "JUMP_IF_FALSE", s.if_tok) IN
                ThenEmit(compile_stmt(emit(j_if_false.chunk, "POP", NoArg, NoTok),
                                      s.then_branch),
                         LAMBDA t :
                            LET j_end == emit_jump(t, "JUMP", s.if_tok)
                                here == emit(patch_jump_to_here(j_end.chunk,
                                                                j_if_false.ip),
                                             "POP", NoArg, NoTok)
                            IN ThenEmit(IF s.else_branch # Absent
                                        THEN compile_stmt(here, s.else_branch)
                                        ELSE Compiled(here),
                                        LAMBDA e :
                                           Compiled(patch_jump_to_here(e, j_end.ip)))))

\* the While branch of Compiler.stmt
compile_while(chunk, s) ==
    LET loop_start == Len(chunk.code) IN
    ThenEmit(compile_expr(chunk, s.cond),
             LAMBDA c :
                LET j_if_false == emit_jump(c, "JUMP_IF_FALSE", s.while_tok) IN
                ThenEmit(compile_stmt(emit(j_if_false.chunk, "POP", NoArg, NoTok),
                                      s.body),
                         LAMBDA b :
                            Compiled(emit(patch_jump_to_here(
                                              emit_loop(b, loop_start, s.while_tok),
                                              j_if_false.ip),
                                          "POP", NoArg, NoTok))))

\* the Def branch of Compiler.stmt
compile_def(chunk, s) ==
    LET make_func(fnc) ==
            IF fnc.err # "" THEN CompileError(chunk, fnc.err)
            ELSE LET proto == ProtoK(emit_implicit_return(fnc.chunk), s.params)
                     m == emit_const(chunk, "MAKE_FUNC", proto, s.def_tok)
                 IN Compiled(emit_const(m, "STORE", NameK(s.name), s.nametok))
    IN make_func(compile_stmts(NewChunk(<<"<fn", s.name, ">">>), s.body.statements))

\* Compiler.stmt
compile_stmt(chunk, s) ==
    CASE s.k = "ExprStmt" ->
            ThenEmit(compile_expr(chunk, s.expr),
                     LAMBDA c : Compiled(emit(c, "POP", NoArg, NoTok)))
      [] s.k = "Assign" ->
            ThenEmit(compile_expr(chunk, s.value),
                     LAMBDA c : Compiled(emit_const(c, "STORE", NameK(s.name),
                                                    s.nametok)))
      [] s.k = "Block" -> compile_stmts(chunk, s.statements)
      [] s.k = "If" -> compile_if(chunk, s)
      [] s.k = "While" -> compile_while(chunk, s)
      [] s.k = "Return" ->
            IF s.value = Absent
            THEN Compiled(emit(emit_const(chunk, "CONST", NoneV, s.return_tok),
                               "RET", NoArg, s.return_tok))
            ELSE ThenEmit(compile_expr(chunk, s.value),
                          LAMBDA c : Compiled(emit(c, "RET", NoArg, s.return_tok)))
      [] s.k = "Def" -> compile_def(chunk, s)
      [] OTHER -> CompileError(chunk, "Compiler: unsupported statement")

\* Compiler.compile_program
compile_program(program, name) ==
    ThenEmit(compile_stmts(NewChunk(name), program),
             LAMBDA c : Compiled(emit_implicit_return(c)))

(***************************************************************************)
(* vm.py: the stack VM.  The VM object is a record v:                      *)
(*   stack    self.stack, the top is the last element                      *)
(*   frames   self.frames: [func, ip, env] per active call, ip from 0      *)
(*   envs     the heap of Env objects; Globals is self.globals             *)
(*   out      the lines print has written                                  *)
(*   status   "new", "running", "ok" (run returned), or the exception run  *)
(*            raised: "RuntimeError_" (err: its message), "HostError"      *)
(*            (exc: the Python exception); "fuel" when the run exceeds the *)
(*            model's bound                                                *)
(*   steps    iterations of the run loop so far                            *)
(***************************************************************************)
\* a plausible slip: the function captures the globals, not the active environment
VMFunctionGlobal(chunk, params, closure, name) ==
    [t |-> "vmfn",
     v |-> [chunk |-> chunk, params |-> params, closure |-> Globals, name |-> name]]

VMFunction(chunk, params, closure, name) ==
    [t |-> "vmfn",
     v |-> [chunk |-> chunk, params |-> params, closure |-> closure, name |-> name]]

Frame(func, ip, env) == [func |-> func, ip |-> ip, env |-> env]

\* VM.__init__ with _install_builtins
NewVM(src) ==
    [src |-> src, stack |-> <<>>, frames |-> <<>>,
     envs |-> <<[parent |-> 0, values |-> [n \in {"print", "len"} |-> BuiltinV(n)]]>>,
     out |-> <<>>, status |-> "new", err |-> <<>>, exc |-> "", steps |-> 0]

\* the first four statements of VM.run
run_start(v, chunk) ==
    LET main == VMFunction(chunk, <<>>, Globals, chunk.name)
        h == NewEnv(v.envs, Globals)
    IN [v EXCEPT !.envs = h, !.frames = <<Frame(main.v, 0, Len(h))>>,
                 !.stack = <<>>, !.status = "running"]

\* seq[i] as Python indexes a list: a negative i counts from the end
ListAt(seq, i) ==
    LET n == Len(seq)
        j == IF i < 0 THEN i + n ELSE i
    IN IF j < 0 \/ j >= n THEN HostRaise("IndexError") ELSE HostOk(seq[j + 1])

\* the outcome of _step: the VM after it, and the exception it raised if any
StepOk(v) == [vm |-> v, status |-> "ok", text |-> <<>>, exc |-> ""]
StepRaise(v, text) == [vm |-> v, status |-> "RuntimeError_", text |-> text, exc |-> ""]
StepHost(v, exc) == [vm |-> v, status |-> "HostError", text |-> <<>>, exc |-> exc]

Top(v) == v.frames[Len(v.frames)]
push(v, x) == [v EXCEPT !.stack = Append(@, x)]
drop(v, n) == [v EXCEPT !.stack = SubSeq(@, 1, Len(@) - n)]
peek(v) == v.stack[Len(v.stack)]
Underflow(v) == StepRaise(v, <<"Stack underflow">>)

\* f.ip += ins.a
jump(v, a) == [v EXCEPT !.frames[Len(v.frames)].ip = @ + a]

\* the STORE branch of _step
step_store(v, name) ==
    IF v.stack = <<>> THEN Underflow(v)
    ELSE LET f == Top(v)
             s == set(v.envs, f.env, name, peek(v))
         IN StepOk([v EXCEPT !.envs = IF s.ok THEN s.heap
                                      ELSE define(@, f.env, name, peek(v))])

\* the arithmetic and comparison branch of _step
step_binary(v, op) ==
    IF Len(v.stack) = 0 THEN Underflow(v)
    ELSE IF Len(v.stack) = 1 THEN Underflow(drop(v, 1))
    ELSE LET b == v.stack[Len(v.stack)]
             a == v.stack[Len(v.stack) - 1]
             k == CHOOSE t \in {"PLUS", "MINUS", "STAR", "SLASH", "PERCENT", "EQEQ",
                                "NEQ", "LT", "LTE", "GT", "GTE"} : op_map(t) = op
             r == BinOp(k, a, b)
         IN IF r.status = "ok" THEN StepOk(push(drop(v, 2), r.val))
            ELSE StepHost(drop(v, 2), r.exc)

\* the BUILD_LIST branch of _step: the slice stack[-n:] takes what there is
step_build_list(v, a) ==
    LET n == IF a = NoArg THEN 0 ELSE a[1]
        k == IF n <= Len(v.stack) THEN n ELSE Len(v.stack)
    IN StepOk(push(drop(v, k), ListV(SubSeq(v.stack, Len(v.stack) - k + 1, Len(v.stack)))))

\* the INDEX branch of _step
step_index(v) ==
    IF Len(v.stack) = 0 THEN Underflow(v)
    ELSE IF Len(v.stack) = 1 THEN Underflow(drop(v, 1))
    ELSE LET idx == v.stack[Len(v.stack)]
             target == v.stack[Len(v.stack) - 1]
             r == IndexOp(target, idx)
         IN IF ~IsNum(idx) THEN StepRaise(drop(v, 2), <<"Index must be an integer">>)
            ELSE IF r.status = "ok" THEN StepOk(push(drop(v, 2), r.val))
            ELSE StepHost(drop(v, 2), r.exc)

\* the CALL branch of _step
step_call(v, a) ==
    LET argc == IF a = NoArg THEN 0 ELSE a[1] IN
    IF Len(v.stack) < argc + 1 THEN Underflow(drop(v, Len(v.stack)))
    ELSE LET args == SubSeq(v.stack, Len(v.stack) - argc + 1, Len(v.stack))
             callee == v.stack[Len(v.stack) - argc]
             v1 == drop(v, argc + 1)
         IN
         IF callee.t = "builtin"
         THEN IF callee.v = "print"
              THEN StepOk(push([v1 EXCEPT !.out = Append(@, PrintLine(args))], NoneV))
              ELSE IF Len(args) # 1
                   THEN StepRaise(v1, <<"len() expects exactly 1 argument">>)
                   ELSE LET r == LenOp(args[1])
                        IN IF r.status = "ok" THEN StepOk(push(v1, r.val))
                           ELSE StepHost(v1, r.exc)
         ELSE IF callee.t = "vmfn"
         THEN IF Len(args) # Len(callee.v.params)
              THEN StepRaise(v1, <<"Function expected", ToString(Len(callee.v.params)),
                                   "args, got", ToString(Len(args))>>)
              ELSE LET h == NewEnv(v1.envs, callee.v.closure)
                       new_env == Len(h)
                   IN StepOk([v1 EXCEPT
                                !.envs = BindParams(h, new_env, callee.v.params, args),
                                !.frames = Append(@, Frame(callee.v, 0, new_env))])
         ELSE StepRaise(v1, <<"Can only call functions">>)

\* the RET branch of _step
step_ret(v) ==
    LET ret == IF v.stack # <<>> THEN peek(v) ELSE NoneV
        v1 == IF v.stack # <<>> THEN drop(v, 1) ELSE v
    IN StepOk(push([v1 EXCEPT !.frames = SubSeq(@, 1, Len(@) - 1)], ret))

\* the conditional jumps of _step: _peek, then jump when bool(v) is `when`
step_jump_if(v, a, when) ==
    IF v.stack = <<>> THEN Underflow(v)
    ELSE StepOk(IF truthy(peek(v)) = when THEN jump(v, a) ELSE v)

\* VM._step (f.ip is already past ins)
step(v, ins) ==
    LET f == Top(v)
        op == ins.op
        k == ListAt(f.func.chunk.consts, ins.a[1])
    IN
    CASE op = "CONST" ->
            IF k.status = "ok" THEN StepOk(push(v, k.val)) ELSE StepHost(v, k.exc)
      [] op = "POP" -> IF v.stack = <<>> THEN Underflow(v) ELSE StepOk(drop(v, 1))
      [] op = "LOAD" ->
            IF k.status # "ok" THEN StepHost(v, k.exc)
            ELSE LET g == get(v.envs, f.env, k.val.v)
                 IN IF g.ok THEN StepOk(push(v, g.val))
                    ELSE StepRaise(v, <<"Undefined variable", k.val.v>>)
      [] op = "STORE" ->
            IF k.status # "ok" THEN StepHost(v, k.exc) ELSE step_store(v, k.val.v)
      [] op = "NEG" ->
            IF v.stack = <<>> THEN Underflow(v)
            ELSE LET r == NegOp(peek(v))
                 IN IF r.status = "ok" THEN StepOk(push(drop(v, 1), r.val))
                    ELSE StepHost(drop(v, 1), r.exc)
      [] op = "NOT" ->
            IF v.stack = <<>> THEN Underflow(v)
            ELSE StepOk(push(drop(v, 1), BoolV(~truthy(peek(v)))))
      [] op \in {"ADD", "SUB", "MUL", "DIV", "MOD", "EQ", "NEQ", "LT", "LTE", "GT",
                 "GTE"} -> step_binary(v, op)
      [] op = "JUMP" -> StepOk(jump(v, ins.a[1]))
      [] op = "JUMP_IF_FALSE" -> step_jump_if(v, ins.a[1], FALSE)
      [] op = "JUMP_IF_TRUE" -> step_jump_if(v, ins.a[1], TRUE)
      [] op = "BUILD_LIST" -> step_build_list(v, ins.a)
      [] op = "INDEX" -> step_index(v)
      [] op = "MAKE_FUNC" ->
            IF k.status # "ok" THEN StepHost(v, k.exc)
            ELSE StepOk(push(v, VMFunction(k.val.v.chunk, k.val.v.params, f.env,
                                           k.val.v.chunk.name)))
      [] op = "CALL" -> step_call(v, ins.a)
      [] op = "RET" -> step_ret(v)
      [] OTHER -> StepRaise(v, <<"Unknown opcode:", op>>)

\* VM._runtime_err
runtime_err(v, ins, text) ==
    LET msg == <<[i |-> "text", text |-> text]>>
    IN IF ins.line # 0 \/ ins.col # 0
       THEN format_error(v.src, <<ins.line, ins.col>>, msg)
       ELSE msg

\* `while self.frames` fails: run returns None
run_exit(v) == IF v.frames = <<>> THEN [v EXCEPT !.status = "ok"] ELSE v

\* one iteration of the while loop of VM.run
run_iteration(v) ==
    LET f == Top(v)
        n == Len(v.frames)
        code == f.func.chunk.code
        ins == ListAt(code, f.ip)
    IN
    IF f.ip >= Len(code)
    THEN LET v1 == [v EXCEPT !.frames = SubSeq(@, 1, n - 1)]
         IN IF v1.frames = <<>> THEN [v1 EXCEPT !.status = "ok"] ELSE push(v1, NoneV)
    ELSE IF ins.status # "ok" THEN [v EXCEPT !.status = "HostError", !.exc = ins.exc]
    ELSE LET r == step([v EXCEPT !.frames[n].ip = @ + 1], ins.val)
         IN CASE r.status = "ok" -> run_exit(r.vm)
              [] r.status = "RuntimeError_" ->
                    [r.vm EXCEPT !.status = "RuntimeError_",
                                 !.err = runtime_err(r.vm, ins.val, r.text)]
              [] OTHER -> [r.vm EXCEPT !.status = "HostError", !.exc = r.exc]

(***************************************************************************)
(* Env driven directly: any Env may be created with any existing Env (or   *)
(* None) as parent, and define / set / get are called on any Env.          *)
(***************************************************************************)
EnvNames == {"x", "y"}
EnvValues == {IntV(1), IntV(2)}

Idle == [status |-> "idle"]

Op(op, e, name, value, ok, result) ==
    [op |-> op, e |-> e, name |-> name, value |-> value, ok |-> ok, result |-> result]

InitEnv ==
    /\ front = Idle
    /\ prog = <<>>
    /\ mainFile = <<>>
    /\ interp = Idle
    /\ vm = Idle
    /\ envs = NewEnv(<<>>, 0)
    /\ lastOp = Op("Env", 1, "", NoneV, TRUE, NoneV)

\* Env(parent)
EnvNew ==
    /\ Len(envs) < MaxEnvs
    /\ \E parent \in 0..Len(envs) :
          /\ envs' = NewEnv(envs, parent)
          /\ lastOp' = Op("Env", Len(envs) + 1, "", NoneV, TRUE, NoneV)
    /\ UNCHANGED <<prog, mainFile, interp, vm, front>>

\* e.define(name, value)
EnvDefine ==
    /\ \E e \in DOMAIN envs, name \in EnvNames, value \in EnvValues :
          /\ envs' = define(envs, e, name, value)
          /\ lastOp' = Op("define", e, name, value, TRUE, NoneV)
    /\ UNCHANGED <<prog, mainFile, interp, vm, front>>

\* e.set(name, value): ok is FALSE when it raises RuntimeError_
EnvSet ==
    /\ \E e \in DOMAIN envs, name \in EnvNames, value \in EnvValues :
          LET r == set(envs, e, name, value)
          IN /\ envs' = r.heap
             /\ lastOp' = Op("set", e, name, value, r.ok, NoneV)
    /\ UNCHANGED <<prog, mainFile, interp, vm, front>>

\* e.get(name): ok is FALSE when it raises RuntimeError_
EnvGet ==
    /\ \E e \in DOMAIN envs, name \in EnvNames :
          LET r == get(envs, e, name)
          IN lastOp' = Op("get", e, name, NoneV, r.ok, r.val)
    /\ UNCHANGED <<prog, mainFile, interp, vm, envs, front>>

\* the tree-walker executes `name = value;` with e as the current environment
EnvAssign ==
    /\ \E e \in DOMAIN envs, name \in EnvNames, value \in EnvValues :
          LET st == [NewInterpreter(<<>>) EXCEPT !.envs = envs]
              r == exec_stmt(Assign(name, NoTok, Number(value.v, NoTok)), e, st)
          IN /\ envs' = r.st.envs
             /\ lastOp' = Op("Assign", e, name, value, r.status = "ok", NoneV)
    /\ UNCHANGED <<prog, mainFile, interp, vm, front>>

\* the VM executes STORE of name in a frame whose environment is e, with value
\* on top of the stack
EnvStore ==
    /\ \E e \in DOMAIN envs, name \in EnvNames, value \in EnvValues :
          LET chunk == emit_const(NewChunk(<<"<module>">>), "STORE", NameK(name), NoTok)
              func == VMFunction(chunk, <<>>, Globals, chunk.name)
              v == [NewVM(MainSrc) EXCEPT !.envs = envs, !.stack = <<value>>,
                                          !.frames = <<Frame(func.v, 1, e)>>]
              r == step(v, chunk.code[1])
          IN /\ envs' = r.vm.envs
             /\ lastOp' = Op("STORE", e, name, value, r.status = "ok", NoneV)
    /\ UNCHANGED <<prog, mainFile, interp, vm, front>>

NextEnv == EnvNew \/ EnvDefine \/ EnvSet \/ EnvGet

SpecEnv == InitEnv /\ [][NextEnv]_vars

\* assignments alone, in both back ends, on environments of any shape
NextAssign == EnvNew \/ EnvAssign \/ EnvStore

SpecAssign == InitEnv /\ [][NextAssign]_vars

\* the environments on the parent chain of e, e first
RECURSIVE Chain(_, _)
Chain(h, e) == IF e = 0 THEN <<>> ELSE <<e>> \o Chain(h, h[e].parent)

Binds(h, e, name) == name \in DOMAIN h[e].values

\* the nearest environment on the chain of e that binds name (0: none does)
NearestBinder(h, e, name) ==
    LET c == Chain(h, e)
        hits == {i \in DOMAIN c : Binds(h, c[i], name)}
    IN IF hits = {} THEN 0 ELSE c[Min(hits)]

\* h2 is h with exactly the binding of name in environment e made value
OnlyBindingChanged(h, h2, e, name, value) ==
    /\ DOMAIN h2 = DOMAIN h
    /\ \A i \in DOMAIN h :
          /\ h2[i].parent = h[i].parent
          /\ DOMAIN h2[i].values = DOMAIN h[i].values \cup (IF i = e THEN {name} ELSE {})
          /\ \A n \in DOMAIN h2[i].values :
                h2[i].values[n] = IF i = e /\ n = name THEN value ELSE h[i].values[n]

C3Step ==
    LET o == lastOp'
        b == NearestBinder(envs, o.e, o.name)
    IN /\ o.op = "define" => OnlyBindingChanged(envs, envs', o.e, o.name, o.value)
       /\ o.op = "set" =>
             IF b = 0 THEN ~o.ok /\ envs' = envs
             ELSE o.ok /\ OnlyBindingChanged(envs, envs', b, o.name, o.value)
       /\ o.op = "get" =>
             /\ envs' = envs
             /\ IF b = 0 THEN ~o.ok ELSE o.ok /\ o.result = envs[b].values[o.name]

\* C3: define changes only the mapping of the environment it is called on;
\* set changes exactly one binding, the one of the nearest environment on the
\* parent chain that already binds the name (and raises when none does); get
\* returns the value of that same nearest binding.
C3_EnvScoping == [][C3Step]_vars

\* a set on an environment that does not bind the name reached a strict
\* ancestor, while a farther ancestor binds the same name to another value
C3_Witness ==
    /\ lastOp.op = "set"
    /\ lastOp.ok
    /\ LET c == Chain(envs, lastOp.e)
       IN \E i, j \in DOMAIN c :
             /\ 1 < i
             /\ i < j
             /\ c[i] = NearestBinder(envs, lastOp.e, lastOp.name)
             /\ Binds(envs, c[j], lastOp.name)
             /\ envs[c[i]].values[lastOp.name] = lastOp.value
             /\ envs[c[j]].values[lastOp.name] # lastOp.value

C12Step ==
    LET o == lastOp'
        b == NearestBinder(envs, o.e, o.name)
    IN o.op \in {"Assign", "STORE"} =>
          /\ o.ok
          /\ OnlyBindingChanged(envs, envs', IF b = 0 THEN o.e ELSE b, o.name, o.value)
          /\ b # 0 => \A i \in DOMAIN envs : DOMAIN envs'[i].values = DOMAIN envs[i].values

\* C12: `name = expr` (the tree-walker's Assign, the VM's STORE) updates the
\* binding of the nearest environment on the chain that already binds name and
\* creates no binding; when no environment on the chain binds name it binds
\* name in the current environment and leaves every other environment as it
\* was.
C12_AssignNearestOrLocal == [][C12Step]_vars

\* C12, its case: an assignment made in an environment that does not bind the
\* name has updated a strict ancestor, while a farther ancestor binds the same
\* name to another value
C12_Witness ==
    /\ lastOp.op \in {"Assign", "STORE"}
    /\ LET c == Chain(envs, lastOp.e)
       IN \E i, j \in DOMAIN c :
             /\ 1 < i
             /\ i < j
             /\ c[i] = NearestBinder(envs, lastOp.e, lastOp.name)
             /\ Binds(envs, c[j], lastOp.name)
             /\ envs[c[i]].values[lastOp.name] = lastOp.value
             /\ envs[c[j]].values[lastOp.name] # lastOp.value

(***************************************************************************)
(* The programs run.  A program is what Parser.parse_program returns: a    *)
(* sequence of statements; statement i of a program stands on line i of    *)
(* its text, and every token has the column it has in that text.           *)
(***************************************************************************)
MaxProgLen == 3     \* statements of a main program drawn from a pool

Num(n, l, c) == Number(n, P(l, c))
V(name, l, c) == Var(name, P(l, c))
Bin(left, op, l, c, right) == Binary(left, op, P(l, c), right)
NameWidth(name) == CASE name = "len" -> 3 [] name = "sq" -> 2 [] OTHER -> 1
CallOf(name, l, c, args) == Call(V(name, l, c), P(l, c + NameWidth(name)), args)

\* x = 1;
AssignX(l) == Assign("x", P(l, 1), Num(1, l, 5))
\* x = x + 1;
IncrX(l) == Assign("x", P(l, 1), Bin(V("x", l, 5), "PLUS", l, 7, Num(1, l, 9)))
\* print(x);
PrintX(l) == PrintOf(l, V("x", l, 7))
\* print(y);
PrintY(l) == PrintOf(l, V("y", l, 7))
\* if (x < 2) { y = 5; print(y); } else { x = 0; }
IfX(l) ==
    If(P(l, 1), Bin(V("x", l, 5), "LT", l, 7, Num(2, l, 9)),
       Block(P(l, 12), <<Assign("y", P(l, 14), Num(5, l, 18)),
                         ExprStmt(Call(V("print", l, 21), P(l, 26), <<V("y", l, 27)>>))>>),
       Block(P(l, 38), <<Assign("x", P(l, 40), Num(0, l, 44))>>))
\* while (x < 3) { x = x + 1; }
WhileX(l) ==
    While(P(l, 1), Bin(V("x", l, 8), "LT", l, 10, Num(3, l, 12)),
          Block(P(l, 15),
                <<Assign("x", P(l, 17),
                         Bin(V("x", l, 21), "PLUS", l, 23, Num(1, l, 25)))>>))

CorePool == <<"AssignX", "IncrX", "PrintX", "IfX", "WhileX", "PrintY">>

\* def f(a) { while (a < 3) { if (a) { return a; } a = a + 1; } print(9); return 0; }
DefLoopF(l) ==
    Def(P(l, 1), "f", P(l, 5), <<"a">>,
        Block(P(l, 10),
              <<While(P(l, 12), Bin(V("a", l, 19), "LT", l, 21, Num(3, l, 23)),
                      Block(P(l, 26),
                            <<If(P(l, 28), V("a", l, 32),
                                 Block(P(l, 35), <<Return(P(l, 37), V("a", l, 44))>>),
                                 Absent),
                              Assign("a", P(l, 49),
                                     Bin(V("a", l, 53), "PLUS", l, 55, Num(1, l, 57)))>>)),
                ExprStmt(Call(V("print", l, 62), P(l, 67), <<Num(9, l, 68)>>)),
                Return(P(l, 72), Num(0, l, 79))>>))
\* def g(a) { y = f(a); return y + 1; }
DefCallG(l) ==
    Def(P(l, 1), "g", P(l, 5), <<"a">>,
        Block(P(l, 10),
              <<Assign("y", P(l, 12), CallOf("f", l, 16, <<V("a", l, 18)>>)),
                Return(P(l, 22), Bin(V("y", l, 29), "PLUS", l, 31, Num(1, l, 33)))>>))
\* def h() { if (true) { return; } print(8); }
DefBareH(l) ==
    Def(P(l, 1), "h", P(l, 5), <<>>,
        Block(P(l, 9),
              <<If(P(l, 11), Bool(TRUE, P(l, 15)),
                   Block(P(l, 21), <<Return(P(l, 23), Absent)>>), Absent),
                ExprStmt(Call(V("print", l, 33), P(l, 38), <<Num(8, l, 39)>>))>>))
\* print(f(0));
PrintF(l) == PrintOf(l, CallOf("f", l, 7, <<Num(0, l, 9)>>))
\* print(g(1));
PrintG(l) == PrintOf(l, CallOf("g", l, 7, <<Num(1, l, 9)>>))
\* print(h());
PrintH(l) == PrintOf(l, CallOf("h", l, 7, <<>>))
\* f();
CallF(l) == ExprStmt(CallOf("f", l, 1, <<>>))
\* return 7;
Return7(l) == Return(P(l, 1), Num(7, l, 8))

FnPool == <<"DefLoopF", "DefCallG", "DefBareH", "PrintF", "PrintG", "PrintH", "CallF",
            "Return7">>

\* def f() { return g(); }
DefF(l) ==
    Def(P(l, 1), "f", P(l, 5), <<>>,
        Block(P(l, 9), <<Return(P(l, 11), CallOf("g", l, 18, <<>>))>>))
\* def g() { x = undef; }
DefG(l) ==
    Def(P(l, 1), "g", P(l, 5), <<>>,
        Block(P(l, 9), <<Assign("x", P(l, 11), V("undef", l, 15))>>))
\* g();
CallG(l) == ExprStmt(CallOf("g", l, 1, <<>>))
\* x = undef;
AssignUndef(l) == Assign("x", P(l, 1), V("undef", l, 5))
\* print(1 % 0);
PrintMod0(l) == PrintOf(l, Bin(Num(1, l, 7), "PERCENT", l, 9, Num(0, l, 11)))
\* print(len(1, 2));
PrintLen2(l) == PrintOf(l, CallOf("len", l, 7, <<Num(1, l, 11), Num(2, l, 14)>>))

ErrPool == <<"DefF", "DefG", "CallF", "CallG", "AssignUndef", "PrintMod0", "PrintLen2">>

\* import "a.raf";  import "./a.raf";  import "lib/m.raf";  import "lib/n.raf";
\* import "/p/lib/../lib/m.raf";  import "nope.raf";  import "bad.raf";
ImportPaths ==
    [ImportA |-> <<"a.raf">>,
     ImportDotA |-> <<".", "a.raf">>,
     ImportM |-> <<"lib", "m.raf">>,
     ImportN |-> <<"lib", "n.raf">>,
     ImportAbsM |-> <<"/", "p", "lib", "..", "lib", "m.raf">>,
     ImportNope |-> <<"nope.raf">>,
     ImportBad |-> <<"bad.raf">>]
\* print(sq(2));
PrintSq(l) == PrintOf(l, CallOf("sq", l, 7, <<Num(2, l, 10)>>))

ImportPool == <<"ImportA", "ImportDotA", "ImportM", "ImportN", "ImportAbsM",
                "ImportNope", "ImportBad", "PrintSq">>

\* the statement called s, standing on line l
StmtAt(s, l) ==
    CASE s = "AssignX" -> AssignX(l)
      [] s = "IncrX" -> IncrX(l)
      [] s = "PrintX" -> PrintX(l)
      [] s = "PrintY" -> PrintY(l)
      [] s = "IfX" -> IfX(l)
      [] s = "WhileX" -> WhileX(l)
      [] s = "DefLoopF" -> DefLoopF(l)
      [] s = "DefCallG" -> DefCallG(l)
      [] s = "DefBareH" -> DefBareH(l)
      [] s = "PrintF" -> PrintF(l)
      [] s = "PrintG" -> PrintG(l)
      [] s = "PrintH" -> PrintH(l)
      [] s = "CallF" -> CallF(l)
      [] s = "Return7" -> Return7(l)
      [] s = "DefF" -> DefF(l)
      [] s = "DefG" -> DefG(l)
      [] s = "CallG" -> CallG(l)
      [] s = "AssignUndef" -> AssignUndef(l)
      [] s = "PrintMod0" -> PrintMod0(l)
      [] s = "PrintLen2" -> PrintLen2(l)
      [] s = "PrintSq" -> PrintSq(l)
      [] OTHER -> ImportOf(l, ImportPaths[s])

Range(f) == {f[i] : i \in DOMAIN f}

\* every program of 1..MaxProgLen statements drawn from the pool
ProgramsOf(pool) ==
    {[l \in DOMAIN names |-> StmtAt(names[l], l)] :
        names \in UNION {[1..n -> Range(pool)] : n \in 1..MaxProgLen}}

\* the operands of the and / or programs; the second component is the width
\* of the operand's text
Atoms ==
    [zero |-> 1, one |-> 1, true |-> 4, false |-> 5, none |-> 4, empty |-> 2,
     str |-> 3, nil |-> 2, undef |-> 5, print7 |-> 8]

\* the operand standing at line l, column c:
\* 0  1  true  false  none  ""  "s"  []  undef  print(7)
AtomAt(a, l, c) ==
    CASE a = "zero" -> Num(0, l, c)
      [] a = "one" -> Num(1, l, c)
      [] a = "true" -> Bool(TRUE, P(l, c))
      [] a = "false" -> Bool(FALSE, P(l, c))
      [] a = "none" -> NoneLit(P(l, c))
      [] a = "empty" -> String(<<>>, P(l, c))
      [] a = "str" -> String(<<"s">>, P(l, c))
      [] a = "nil" -> ListLit(P(l, c), <<>>)
      [] a = "undef" -> V("undef", l, c)
      [] OTHER -> Call(V("print", l, c), P(l, c + 5), <<Num(7, l, c + 6)>>)

OpWidth(op) == IF op = "AND" THEN 3 ELSE 2

\* r = a OP b;
LogicStmt(a, op, b) ==
    LET c1 == 5 + Atoms[a] + 1
        c2 == c1 + OpWidth(op) + 1
    IN Assign("r", P(1, 1), Bin(AtomAt(a, 1, 5), op, 1, c1, AtomAt(b, 1, c2)))

\* r = a or b and c;  (and binds tighter)   r = a and b or c;
LogicStmt3(a, op1, b, c) ==
    LET op2 == IF op1 = "AND" THEN "OR" ELSE "AND"
        c1 == 5 + Atoms[a] + 1
        c2 == c1 + OpWidth(op1) + 1
        c3 == c2 + Atoms[b] + 1
        c4 == c3 + OpWidth(op2) + 1
    IN Assign("r", P(1, 1),
              IF op1 = "AND"
              THEN Bin(Bin(AtomAt(a, 1, 5), "AND", 1, c1, AtomAt(b, 1, c2)),
                       "OR", 1, c3, AtomAt(c, 1, c4))
              ELSE Bin(AtomAt(a, 1, 5), "OR", 1, c1,
                       Bin(AtomAt(b, 1, c2), "AND", 1, c3, AtomAt(c, 1, c4))))

Atoms3 == {"zero", "str", "nil", "undef", "print7"}

LogicPrograms ==
    {<<LogicStmt(a, op, b)>> : a \in DOMAIN Atoms, op \in {"AND", "OR"}, b \in DOMAIN Atoms}
    \cup {<<LogicStmt3(a, op, b, c)>> : a \in Atoms3, op \in {"AND", "OR"},
                                        b \in Atoms3, c \in Atoms3}

\* programs about closures, for the values 1..2:
\*   x = v1;
\*   def f() { return x; }
\*   x = v2;
\*   print(f());
ClosureValues == {1, 2}
DefReadX(l) ==
    Def(P(l, 1), "f", P(l, 5), <<>>,
        Block(P(l, 9), <<Return(P(l, 11), V("x", l, 18))>>))
CaptureThenChange(v1, v2) ==
    <<Assign("x", P(1, 1), Num(v1, 1, 5)), DefReadX(2),
      Assign("x", P(3, 1), Num(v2, 3, 5)), PrintOf(4, CallOf("f", 4, 7, <<>>))>>

\*   def f() { return y; }
\*   def g(y) { return f(); }
\*   y = v;                      (the statement is left out in CalleeSeesNoCaller)
\*   print(g(5));
DefReadY(l) ==
    Def(P(l, 1), "f", P(l, 5), <<>>,
        Block(P(l, 9), <<Return(P(l, 11), V("y", l, 18))>>))
DefCallerY(l) ==
    Def(P(l, 1), "g", P(l, 5), <<"y">>,
        Block(P(l, 10), <<Return(P(l, 12), CallOf("f", l, 19, <<>>))>>))
CalleeSeesDefiner(v) ==
    <<DefReadY(1), DefCallerY(2), Assign("y", P(3, 1), Num(v, 3, 5)),
      PrintOf(4, CallOf("g", 4, 7, <<Num(5, 4, 9)>>))>>
CalleeSeesNoCaller ==
    <<DefReadY(1), DefCallerY(2), PrintOf(3, CallOf("g", 3, 7, <<Num(5, 3, 9)>>))>>

\*   def mk(a) { def h() { return a; } a = a + v; return h; }
\*   r = mk(1)();
\*   print(r);
DefMaker(l, v) ==
    Def(P(l, 1), "mk", P(l, 5), <<"a">>,
        Block(P(l, 11),
              <<Def(P(l, 13), "h", P(l, 17), <<>>,
                    Block(P(l, 21), <<Return(P(l, 23), V("a", l, 30))>>)),
                Assign("a", P(l, 35), Bin(V("a", l, 39), "PLUS", l, 41, Num(v, l, 43))),
                Return(P(l, 46), V("h", l, 53))>>))
InnerCapture(v) ==
    <<DefMaker(1, v),
      Assign("r", P(2, 1),
             Call(Call(V("mk", 2, 5), P(2, 7), <<Num(1, 2, 8)>>), P(2, 10), <<>>)),
      PrintOf(3, V("r", 3, 7))>>

ClosurePrograms ==
    {CaptureThenChange(v1, v2) : v1 \in ClosureValues, v2 \in ClosureValues}
    \cup {CalleeSeesDefiner(v) : v \in ClosureValues}
    \cup {InnerCapture(v) : v \in ClosureValues}
    \cup {CalleeSeesNoCaller}

\* programs that index a two-element list or string, for the indices -3..2:
\*   print([1, 2][i]);
\*   print("ab"[i]);
Indices == -3..2
IndexExpr(i, l, c) == IF i < 0 THEN Unary("MINUS", P(l, c), Num(-i, l, c + 1)) ELSE Num(i, l, c)
IndexList(i) ==
    <<PrintOf(1, Index(ListLit(P(1, 7), <<Num(1, 1, 8), Num(2, 1, 11)>>), P(1, 13),
                       IndexExpr(i, 1, 14)))>>
IndexStr(i) ==
    <<PrintOf(1, Index(String(<<"a", "b">>, P(1, 7)), P(1, 11), IndexExpr(i, 1, 12)))>>
IndexPrograms == {IndexList(i) : i \in Indices} \cup {IndexStr(i) : i \in Indices}

\* programs that divide by zero:
\*   print(1 / 0);
\*   print(1 % 0);
\*   x = 0;  print(7 / x);
PrintDiv0(l) == PrintOf(l, Bin(Num(1, l, 7), "SLASH", l, 9, Num(0, l, 11)))
DivByX(l) == PrintOf(l, Bin(Num(7, l, 7), "SLASH", l, 9, V("x", l, 11)))
DivPrograms ==
    {<<PrintDiv0(1)>>, <<PrintMod0(1)>>, <<Assign("x", P(1, 1), Num(0, 1, 5)), DivByX(2)>>}

\* programs whose operators take the results of calls and of `not`:
\*   x = 1;
\*   while (not (x > 2)) { x = x + 1; }
\*   print(not x);
\* and
\*   def f(a) { while (a < 3) { if (a) { return a; } a = a + 1; } ... }
\*   def g(a) { y = f(a); return y + 1; }
\*   print(g(f(1)) + 1);
NotLoop ==
    <<AssignX(1),
      While(P(2, 1),
            Unary("NOT", P(2, 8), Bin(V("x", 2, 13), "GT", 2, 15, Num(2, 2, 17))),
            Block(P(2, 21),
                  <<Assign("x", P(2, 23),
                           Bin(V("x", 2, 27), "PLUS", 2, 29, Num(1, 2, 31)))>>)),
      PrintOf(3, Unary("NOT", P(3, 7), V("x", 3, 11)))>>
NestedArgs ==
    <<DefLoopF(1), DefCallG(2),
      PrintOf(3, Bin(Call(V("g", 3, 7), P(3, 8),
                          <<CallOf("f", 3, 9, <<Num(1, 3, 11)>>)>>),
                     "PLUS", 3, 15, Num(1, 3, 17)))>>
OperandPrograms == {NotLoop, NestedArgs}

\* the files `pyraf run FILE` is given
MainFiles == {FileA, FileB, FileN}

(***************************************************************************)
(* The runs.  A main program is run by the tree-walker (Interpreter.run,   *)
(* one top-level statement per step) and then compiled and run by the VM   *)
(* (VM.run, one iteration of its loop per step).                           *)
(***************************************************************************)
NewRun(src, base_dir) ==
    [st |-> [NewInterpreter(base_dir) EXCEPT !.src = src],
     pc |-> 0, status |-> "running", err |-> <<>>, origin |-> <<>>, exc |-> ""]

\* below observes the calls: for every active frame, the value stack as CALL
\* left it when it pushed the frame, which is the stack below the callee value
NewVMRun(src) == [v |-> NewVM(src), chunk |-> NewChunk(<<>>), below |-> <<>>]

Below(below, v, v2) ==
    IF Len(v2.frames) > Len(v.frames) THEN Append(below, v2.stack)
    ELSE IF Len(v2.frames) < Len(v.frames) THEN SubSeq(below, 1, Len(below) - 1)
    ELSE below

Init ==
    /\ front = Idle
    /\ envs = <<>>
    /\ lastOp = Idle
    /\ \/ /\ mainFile = <<>>
          /\ prog \in ProgramsOf(CorePool) \cup ProgramsOf(FnPool)
                      \cup ProgramsOf(ErrPool) \cup LogicPrograms
                      \cup ClosurePrograms \cup IndexPrograms \cup DivPrograms
                      \cup OperandPrograms
          /\ interp = NewRun(MainSrc, <<>>)
          /\ vm = NewVMRun(MainSrc)
       \/ /\ mainFile = <<>>
          /\ prog \in ProgramsOf(ImportPool)
          /\ \E base_dir \in {<<>>, Cwd, LibDir} : interp = NewRun(MainSrc, base_dir)
          /\ vm = NewVMRun(MainSrc)
       \/ /\ mainFile \in MainFiles
          /\ prog = Files[mainFile].prog
          /\ interp = NewRun(mainFile, <<>>)
          /\ vm = NewVMRun(mainFile)

\* Interpreter.run: the next statement of the program, in self.globals
InterpreterRun ==
    /\ interp.status = "running"
    /\ LET st0 == [interp.st EXCEPT
                     !.fuel = MaxFuel,
                     !.execs = IF interp.pc = 0 /\ mainFile # <<>>
                               THEN Append(@, mainFile) ELSE @]
           after(r) == [st |-> r.st, pc |-> interp.pc + 1,
                        status |-> IF r.status # "ok" THEN r.status
                                   ELSE IF interp.pc + 1 = Len(prog) THEN "ok"
                                   ELSE "running",
                        err |-> r.err, origin |-> r.origin, exc |-> r.exc]
       IN interp' = after(exec_stmt(prog[interp.pc + 1], Globals, st0))
    /\ UNCHANGED <<prog, mainFile, vm, envs, lastOp, front>>

\* compile_program(program, src, name)
CompileProgram ==
    /\ interp.status # "running"
    /\ vm.v.status = "new"
    /\ LET loaded(r) ==
               IF r.err = "" THEN [v |-> [vm.v EXCEPT !.status = "compiled"],
                                   chunk |-> r.chunk, below |-> vm.below]
               ELSE [v |-> [vm.v EXCEPT !.status = "RuntimeError_",
                                        !.err = <<[i |-> "text", text |-> <<r.err>>]>>],
                     chunk |-> vm.chunk, below |-> vm.below]
       IN vm' = loaded(compile_program(prog, <<"<module>">>))
    /\ UNCHANGED <<prog, mainFile, interp, envs, lastOp, front>>

\* VM.run up to its while loop
VMRun ==
    /\ vm.v.status = "compiled"
    /\ vm' = [vm EXCEPT !.v = run_start(vm.v, vm.chunk), !.below = <<<<>>>>]
    /\ UNCHANGED <<prog, mainFile, interp, envs, lastOp, front>>

\* one iteration of the while loop of VM.run
VMRunLoop ==
    /\ vm.v.status = "running"
    /\ vm.v.steps < MaxSteps
    /\ LET after(v2) == [vm EXCEPT !.v = [v2 EXCEPT !.steps = @ + 1],
                                   !.below = Below(vm.below, vm.v, v2)]
       IN vm' = after(run_iteration(vm.v))
    /\ UNCHANGED <<prog, mainFile, interp, envs, lastOp, front>>

Next == InterpreterRun \/ CompileProgram \/ VMRun \/ VMRunLoop

Spec == Init /\ [][Next]_vars

(***************************************************************************)
(* The inputs of the front end.  The parser is given token lists laid out  *)
(* as lex lays them out: a line and a column for every token, and the EOF  *)
(* token after the last one.                                               *)
(***************************************************************************)
MaxOps == 3         \* operators (binary, prefix, call, index) of an expression given to the parser

\* the text of the tokens that have one text
KindText ==
    [kind \in TokenKind \ {"IDENT", "NUMBER", "STRING", "EOF"} |->
        CASE kind = "LPAREN" -> <<"(">> [] kind = "RPAREN" -> <<")">>
          [] kind = "LBRACE" -> <<"{">> [] kind = "RBRACE" -> <<"}">>
          [] kind = "LBRACKET" -> <<"[">> [] kind = "RBRACKET" -> <<"]">>
          [] kind = "COMMA" -> <<",">> [] kind = "SEMI" -> <<";">>
          [] kind = "PLUS" -> <<"+">> [] kind = "MINUS" -> <<"-">>
          [] kind = "STAR" -> <<"*">> [] kind = "SLASH" -> <<"/">>
          [] kind = "PERCENT" -> <<"%">> [] kind = "EQ" -> <<"=">>
          [] kind = "EQEQ" -> <<"=", "=">> [] kind = "NEQ" -> <<"!", "=">>
          [] kind = "LT" -> <<"<">> [] kind = "LTE" -> <<"<", "=">>
          [] kind = "GT" -> <<">">> [] kind = "GTE" -> <<">", "=">>
          [] kind = "IF" -> <<"i", "f">> [] kind = "ELSE" -> <<"e", "l", "s", "e">>
          [] kind = "WHILE" -> <<"w", "h", "i", "l", "e">>
          [] kind = "DEF" -> <<"d", "e", "f">>
          [] kind = "RETURN" -> <<"r", "e", "t", "u", "r", "n">>
          [] kind = "TRUE" -> <<"t", "r", "u", "e">>
          [] kind = "FALSE" -> <<"f", "a", "l", "s", "e">>
          [] kind = "NONE" -> <<"n", "o", "n", "e">>
          [] kind = "AND" -> <<"a", "n", "d">> [] kind = "OR" -> <<"o", "r">>
          [] OTHER -> <<"n", "o", "t">>]

\* a token still without its place; NL stands for a line break
Item(kind, lexeme) == [kind |-> kind, lexeme |-> lexeme]
K(kind) == Item(kind, KindText[kind])
Id(name) == Item("IDENT", <<name>>)
NumItem(digit) == Item("NUMBER", <<digit>>)
NL == Item("NL", <<>>)

\* the tokens lex makes of the items written with one blank between them
RECURSIVE Layout(_, _, _)
Layout(items, line, col) ==
    IF items = <<>> THEN <<Token("EOF", <<>>, line, col)>>
    ELSE LET it == Head(items)
             width == Len(it.lexeme) + (IF it.kind = "STRING" THEN 2 ELSE 0)
         IN IF it.kind = "NL" THEN Layout(Tail(items), line + 1, 1)
            ELSE <<Token(it.kind, it.lexeme, line, col)>>
                 \o Layout(Tail(items), line, col + width + 1)

\* the expressions with exactly n operators over the operand a, without
\* their tokens
BinaryKinds ==
    {"OR", "AND", "EQEQ", "NEQ", "LT", "LTE", "GT", "GTE", "PLUS", "MINUS", "STAR",
     "SLASH", "PERCENT"}
PrefixKinds == {"MINUS", "NOT"}
Operand == Var(<<"a">>, NoTok)
RECURSIVE Exprs(_)
Exprs(n) ==
    IF n = 0 THEN {Operand}
    ELSE UNION {{Binary(l, op, NoTok, r) : l \in Exprs(j), r \in Exprs(n - 1 - j)} :
                    j \in 0..(n - 1), op \in BinaryKinds}
         \cup {Unary(op, NoTok, e) : op \in PrefixKinds, e \in Exprs(n - 1)}
         \cup {Call(e, NoTok, <<>>) : e \in Exprs(n - 1)}
         \cup {Index(e, NoTok, Number(1, NoTok)) : e \in Exprs(n - 1)}

\* the precedence table: or < and < ==,!= < <,<=,>,>= < +,- < *,/,%
Level(op) ==
    CASE op = "OR" -> 1
      [] op = "AND" -> 2
      [] op \in {"EQEQ", "NEQ"} -> 3
      [] op \in {"LT", "LTE", "GT", "GTE"} -> 4
      [] op \in {"PLUS", "MINUS"} -> 5
      [] op \in {"STAR", "SLASH", "PERCENT"} -> 6

\* the text of an expression with the parentheses the grouping rules make
\* necessary and no others: around a left operand of a lower level, a right
\* operand of a lower or the same level, a binary operand of a prefix
\* operator, and a binary or prefix target of a call or index
Parens(items) == <<K("LPAREN")>> \o items \o <<K("RPAREN")>>
RECURSIVE Unparse(_)
Unparse(e) ==
    CASE e.k = "Var" -> <<Item("IDENT", e.name)>>
      [] e.k = "Number" -> <<NumItem(ToString(e.value.v))>>
      [] e.k = "Binary" ->
            (IF e.left.k = "Binary" /\ Level(e.left.op) < Level(e.op)
             THEN Parens(Unparse(e.left)) ELSE Unparse(e.left))
            \o <<K(e.op)>>
            \o (IF e.right.k = "Binary" /\ Level(e.right.op) <= Level(e.op)
                THEN Parens(Unparse(e.right)) ELSE Unparse(e.right))
      [] e.k = "Unary" ->
            <<K(e.op)>>
            \o (IF e.right.k = "Binary" THEN Parens(Unparse(e.right)) ELSE Unparse(e.right))
      [] e.k = "Call" ->
            (IF e.callee.k \in {"Binary", "Unary"}
             THEN Parens(Unparse(e.callee)) ELSE Unparse(e.callee))
            \o <<K("LPAREN"), K("RPAREN")>>
      [] e.k = "Index" ->
            (IF e.target.k \in {"Binary", "Unary"}
             THEN Parens(Unparse(e.target)) ELSE Unparse(e.target))
            \o <<K("LBRACKET")>> \o Unparse(e.index) \o <<K("RBRACKET")>>

\* a node without its tokens
RECURSIVE Shape(_)
Shape(e) ==
    CASE e.k = "Binary" -> Binary(Shape(e.left), e.op, NoTok, Shape(e.right))
      [] e.k = "Unary" -> Unary(e.op, NoTok, Shape(e.right))
      [] e.k = "Call" -> Call(Shape(e.callee), NoTok, [j \in DOMAIN e.args |-> Shape(e.args[j])])
      [] e.k = "Index" -> Index(Shape(e.target), NoTok, Shape(e.index))
      [] e.k = "ExprStmt" -> ExprStmt(Shape(e.expr))
      [] OTHER -> [e EXCEPT !.tok = NoTok]

\* programs given to the parser whole and cut off after each of their tokens:
\*   if ( a ) { b ; } else { c ; }
\*   while ( a ) { x = 1 ; if ( b ) { return ; } }
\*   def f ( p , q ) { return p ; }
WholePrograms ==
    {<<K("IF"), K("LPAREN"), Id("a"), K("RPAREN"), K("LBRACE"), Id("b"), K("SEMI"),
       K("RBRACE"), K("ELSE"), K("LBRACE"), NL, Id("c"), K("SEMI"), NL, K("RBRACE")>>,
     <<K("WHILE"), K("LPAREN"), Id("a"), K("RPAREN"), K("LBRACE"), NL,
       Id("x"), K("EQ"), NumItem("1"), K("SEMI"), NL,
       K("IF"), K("LPAREN"), Id("b"), K("RPAREN"), K("LBRACE"), K("RETURN"), K("SEMI"),
       K("RBRACE"), NL, K("RBRACE")>>,
     <<K("DEF"), Id("f"), K("LPAREN"), Id("p"), K("COMMA"), Id("q"), K("RPAREN"),
       K("LBRACE"), NL, K("RETURN"), Id("p"), K("SEMI"), NL, K("RBRACE")>>}
CutPrograms == UNION {{SubSeq(p, 1, n) : n \in 1..Len(p)} : p \in WholePrograms}

\* import "m.raf" ;    as a lexer without the import keyword would lex it
ImportItems ==
    <<Item("IDENT", <<"i", "m", "p", "o", "r", "t">>),
      Item("STRING", <<"m", ".", "r", "a", "f">>), K("SEMI")>>

\* source texts given to lex
ImportText ==
    <<"i", "m", "p", "o", "r", "t", " ", "\"", "m", ".", "r", "a", "f", "\"", ";">>
SourceTexts ==
    {ImportText,
     <<"a", " ", "=", " ", "1", ";">>,
     <<"x", ">", "=", "\"", "s", "\"", " ", "/", "/", "c", "\n">>,
     <<"\"", "a">>,
     <<"a", " ", "?">>}

(***************************************************************************)
(* The front end driven directly: lex is applied to a source text, and     *)
(* Parser(tokens, src).parse_program() to a token list.                    *)
(***************************************************************************)
NotRun == [status |-> "none"]
GivenText(src) ==
    [status |-> "given", src |-> src, tree |-> Absent, toks |-> <<>>,
     lexed |-> NotRun, parsed |-> NotRun]
GivenTokens(toks, tree) ==
    [status |-> "given", src |-> <<>>, tree |-> tree, toks |-> toks,
     lexed |-> NotRun, parsed |-> NotRun]

InitFront ==
    /\ prog = <<>>
    /\ mainFile = <<>>
    /\ interp = Idle
    /\ vm = Idle
    /\ envs = <<>>
    /\ lastOp = Idle
    /\ \/ \E src \in SourceTexts : front = GivenText(src)
       \/ \E n \in 0..MaxOps : \E e \in Exprs(n) :
             front = GivenTokens(Layout(Unparse(e) \o <<K("SEMI")>>, 1, 1), e)
       \/ \E items \in CutPrograms \cup {ImportItems} :
             front = GivenTokens(Layout(items, 1, 1), Absent)

\* tokens = lex(src)
LexSource ==
    /\ front.status = "given"
    /\ front.src # <<>>
    /\ front.lexed = NotRun
    /\ front' = [front EXCEPT !.lexed = import_and_lex(front.src)]
    /\ UNCHANGED <<prog, mainFile, interp, vm, envs, lastOp>>

\* program = Parser(tokens, src).parse_program()
ParseTokens ==
    /\ front.status = "given"
    /\ front.toks # <<>>
    /\ front.parsed = NotRun
    /\ front' = [front EXCEPT !.parsed = parse_program(front.toks)]
    /\ UNCHANGED <<prog, mainFile, interp, vm, envs, lastOp>>

NextFront == LexSource \/ ParseTokens
SpecFront == InitFront /\ [][NextFront]_vars

(***************************************************************************)
(* lex run one loop iteration at a time on every short text over a small   *)
(* alphabet and on the text of tests/test_lexer.py.  The module lexer.py   *)
(* is taken as loaded, with the member its keyword table names.           *)
(***************************************************************************)
MaxSrcLen == 3

\* tokens.py: TokenKind, with the member IMPORT that lexer.py names
TokenKindWithImport == TokenKind \cup {"IMPORT"}

LexAlphabet == {"a", "1", ".", " ", "\n", "\"", "\\", "/", "=", ";", "?"}
TestSource ==
    <<"x", " ", "=", " ", "1", "2", ";", " ", "i", "f", " ", "(", "x", " ", ">", "=", " ",
      "1", "0", ")", " ", "{", " ", "p", "r", "i", "n", "t", "(", "\"", "o", "k", "\"", ")",
      ";", " ", "}">>
LexTexts ==
    UNION {[1..n -> LexAlphabet] : n \in 0..MaxSrcLen} \cup SourceTexts \cup {TestSource}

InitLex ==
    /\ prog = <<>>
    /\ mainFile = <<>>
    /\ interp = Idle
    /\ vm = Idle
    /\ envs = <<>>
    /\ lastOp = Idle
    /\ \E src \in LexTexts : front = [src |-> src] @@ Lexing(0, 1, 1, <<>>)

\* while i < len(src): one iteration
LexIteration ==
    /\ front.status = "lexing"
    /\ front.i < Len(front.src)
    /\ front' = [src |-> front.src]
                @@ lex_iteration(front.src, front.i, front.line, front.col, front.tokens)
    /\ UNCHANGED <<prog, mainFile, interp, vm, envs, lastOp>>

\* the loop is left: the EOF token is appended and the tokens are returned
LexReturn ==
    /\ front.status = "lexing"
    /\ ~(front.i < Len(front.src))
    /\ front' = [src |-> front.src] @@ lex_return(front.line, front.col, front.tokens)
    /\ UNCHANGED <<prog, mainFile, interp, vm, envs, lastOp>>

NextLex == LexIteration \/ LexReturn
\* a call of lex runs to its end: the loop is sequential code
SpecLex == InitLex /\ [][NextLex]_vars /\ WF_vars(NextLex)

(***************************************************************************)
(* cli.py: the repl command.  A state is the loop waiting in input() with  *)
(* the prompt shown; a step is one line read and all the loop does with it.*)
(* The text of a line and of the buffer is its sequence of characters.     *)
(***************************************************************************)
MaxLines == 3

\* x = 1;
AssignLine == <<"x", " ", "=", " ", "1", ";">>
\* print(x);
PrintLine_x == <<"p", "r", "i", "n", "t", "(", "x", ")", ";">>
\* print(1 / 0);
DivZeroLine == <<"p", "r", "i", "n", "t", "(", "1", " ", "/", " ", "0", ")", ";">>
\* print(1 + "a");
TypeLine == <<"p", "r", "i", "n", "t", "(", "1", " ", "+", " ", "\"", "a", "\"", ")", ";">>
\* if (x) {
OpenLine == <<"i", "f", " ", "(", "x", ")", " ", "{">>
\* }
CloseLine == <<"}">>
\* x = ;
ParseErrLine == <<"x", " ", "=", " ", ";">>
\* x = "a;
LexErrLine == <<"x", " ", "=", " ", "\"", "a", ";">>
\*  
BlankLine == <<" ">>
\* quit
QuitLine == <<"q", "u", "i", "t">>
\* return 1;
ReturnLine == <<"r", "e", "t", "u", "r", "n", " ", "1", ";">>
ReplLines ==
    {AssignLine, PrintLine_x, DivZeroLine, TypeLine, OpenLine, CloseLine, ParseErrLine, LexErrLine, BlankLine, QuitLine,
     ReturnLine}

\* str.strip, str.endswith
Whitespace == {" ", "\t", "\n", "\r"}
RECURSIVE lstrip(_)
lstrip(s) == IF s # <<>> /\ Head(s) \in Whitespace THEN lstrip(Tail(s)) ELSE s
RECURSIVE rstrip(_)
rstrip(s) ==
    IF s # <<>> /\ s[Len(s)] \in Whitespace THEN rstrip(SubSeq(s, 1, Len(s) - 1)) ELSE s
strip(s) == lstrip(rstrip(s))
endswith(s, ch) == s # <<>> /\ s[Len(s)] = ch

\* the name a lexeme spells, as the runtime's mappings key it
NameOf(lexeme) ==
    CASE lexeme = <<"x">> -> "x"
      [] lexeme = <<"p", "r", "i", "n", "t">> -> "print"
      [] lexeme = <<"l", "e", "n">> -> "len"
      [] OTHER -> "y"

\* the tree the parser returns, its names written as the runtime keys them
RECURSIVE WithNames(_)
WithNames(n) ==
    LET each(s) == [j \in 1..Len(s) |-> WithNames(s[j])] IN
    CASE n.k = "Var" -> [n EXCEPT !.name = NameOf(@)]
      [] n.k = "Unary" -> [n EXCEPT !.right = WithNames(@)]
      [] n.k = "Binary" -> [n EXCEPT !.left = WithNames(@), !.right = WithNames(@)]
      [] n.k = "Call" -> [n EXCEPT !.callee = WithNames(@), !.args = each(@)]
      [] n.k = "ListLit" -> [n EXCEPT !.items = each(@)]
      [] n.k = "Index" -> [n EXCEPT !.target = WithNames(@), !.index = WithNames(@)]
      [] n.k = "ExprStmt" -> [n EXCEPT !.expr = WithNames(@)]
      [] n.k = "Assign" -> [n EXCEPT !.name = NameOf(@), !.value = WithNames(@)]
      [] n.k = "Block" -> [n EXCEPT !.statements = each(@)]
      [] n.k = "If" -> [n EXCEPT !.cond = WithNames(@), !.then_branch = WithNames(@),
                                 !.else_branch = WithNames(@)]
      [] n.k = "While" -> [n EXCEPT !.cond = WithNames(@), !.body = WithNames(@)]
      [] n.k = "Return" -> [n EXCEPT !.value = WithNames(@)]
      [] n.k = "Def" -> [n EXCEPT !.name = NameOf(@),
                                  !.params = [j \in 1..Len(@) |-> NameOf(@[j])],
                                  !.body = WithNames(@)]
      [] OTHER -> n

\* the try block of the loop: lex, parse_program, interp.src = buffer,
\* interp.run_in_env(program, env); the result carries the exception raised
repl_try(buffer, st, env) ==
    LET parsed(p) ==
            IF p.status # "ok" THEN Throw(st, "ParseError", "")
            ELSE exec_stmts([j \in 1..Len(p.node) |-> WithNames(p.node[j])], env,
                            [st EXCEPT !.src = buffer])
        lexed(t) ==
            IF t.status # "ok" THEN Throw(st, "LexError", "")
            ELSE parsed(parse_program(t.tokens))
    IN lexed(lex(buffer))

\* interp = Interpreter(src=""); env = Env(interp.globals); buffer = ""
NewRepl == [st |-> [NewInterpreter(<<>>) EXCEPT !.src = <<>>, !.envs = NewEnv(@, Globals)],
            env |-> Globals + 1]
Prompt(buffer) == IF buffer = <<>> THEN ">>> " ELSE "... "
AtInput(buffer, read, last) ==
    [status |-> "input", buffer |-> buffer, prompt |-> Prompt(buffer), read |-> read,
     last |-> last, exc |-> ""]
\* break: the loop is left and main returns
Left(buffer, read) ==
    [status |-> "returned", buffer |-> buffer, prompt |-> "", read |-> read,
     last |-> "break", exc |-> ""]
\* an exception no except clause of the loop names leaves main
Escaped(read, last, exc) ==
    [status |-> "raised", buffer |-> <<>>, prompt |-> "", read |-> read, last |-> last,
     exc |-> exc]

InitRepl ==
    /\ prog = <<>>
    /\ mainFile = <<>>
    /\ vm = Idle
    /\ envs = <<>>
    /\ lastOp = Idle
    /\ interp = NewRepl
    /\ front = AtInput(<<>>, 0, "none")

\* except PyRafError as e: print(e)
Caught == {"LexError", "ParseError", "RuntimeError_"}

\* line = input(prompt) returns a line, and the rest of the iteration
ReplLine ==
    /\ front.status = "input"
    /\ front.read < MaxLines
    /\ \E line \in ReplLines :
          LET buffer == front.buffer \o line \o <<"\n">>
              stripped == strip(buffer)
              read == front.read + 1
              after(r) ==
                  /\ interp' = [interp EXCEPT !.st = r.st]
                  /\ front' = IF r.status = "ok" \/ r.status \in Caught
                              THEN AtInput(<<>>, read, r.status)
                              ELSE Escaped(read, r.status, r.exc)
          IN IF front.buffer = <<>> /\ strip(line) \in {<<"q", "u", "i", "t">>,
                                                         <<"e", "x", "i", "t">>}
             THEN front' = Left(front.buffer, read) /\ UNCHANGED interp
             ELSE IF stripped = <<>>
             THEN front' = AtInput(<<>>, read, "blank") /\ UNCHANGED interp
             ELSE IF ~(endswith(stripped, ";") \/ endswith(stripped, "}"))
             THEN front' = AtInput(buffer, read, "partial") /\ UNCHANGED interp
             ELSE after(repl_try(buffer, [interp.st EXCEPT !.fuel = MaxFuel], interp.env))
    /\ UNCHANGED <<prog, mainFile, vm, envs, lastOp>>

\* input(prompt) raises EOFError: print(); break
ReplEOF ==
    /\ front.status = "input"
    /\ front' = Left(front.buffer, front.read)
    /\ UNCHANGED <<prog, mainFile, interp, vm, envs, lastOp>>

NextRepl == ReplLine \/ ReplEOF
SpecRepl == InitRepl /\ [][NextRepl]_vars

(***************************************************************************)
(* Properties.                                                             *)
(***************************************************************************)
\* the run has ended: run returned, or an exception left it
Finished(status) ==
    status \in {"ok", "RuntimeError_", "ReturnSignal", "LexError", "ParseError",
                "HostError"}

\* how a run ends for the user: normally, with a diagnosed error (a PyRafError,
\* which the driver prints), or with an exception the driver does not catch
Outcome(status) ==
    CASE status = "ok" -> "completed"
      [] status \in {"RuntimeError_", "LexError", "ParseError"} -> "diagnosed"
      [] OTHER -> "crash"

NoImport(p) == \A i \in DOMAIN p : p[i].k # "Import"

\* C1: for every program both back ends print the same lines and end the same
\* way (normal completion, or a diagnosed runtime error).
C1_BackendsAgree ==
    (NoImport(prog) /\ Finished(interp.status) /\ Finished(vm.v.status))
        => /\ interp.st.out = vm.v.out
           /\ Outcome(interp.status) = Outcome(vm.v.status)

\* C1, the run the claim fails on:
\*   def f(a) { while (a < 3) { if (a) { return a; } a = a + 1; } print(9); return 0; }
\*   print(f(0));
\* the tree-walker prints 1 and completes, the VM prints nothing and reports
\* "Can only call functions"
C1_Diverges ==
    /\ prog = <<DefLoopF(1), PrintF(2)>>
    /\ interp.status = "ok"
    /\ interp.st.out = <<<<"1">>>>
    /\ vm.v.status = "RuntimeError_"
    /\ vm.v.out = <<>>

Count(seq, x) == Cardinality({i \in DOMAIN seq : seq[i] = x})

\* the paths the import statements of the programs name
PathsNamed == Range(ImportPaths) \cup {<<"m.raf">>, <<"b.raf">>}

\* an import of path, executed next at top level, would do nothing
ImportIsNoOp(path) ==
    LET st == interp.st
        r == exec_stmt(ImportOf(9, path), Globals, st)
    IN /\ r.status = "ok"
       /\ r.st.envs = st.envs
       /\ r.st.out = st.out
       /\ r.st.loads = st.loads
       /\ r.st.execs = st.execs
       /\ r.st.imported = st.imported

ReturnEndsInvocation(log, i) ==
    LET r == log[i] IN
    /\ i < Len(log)
    /\ log[i + 1].ev = "exit"
    /\ log[i + 1].inv = r.inv
    /\ log[i + 1].val = r.val
    /\ \A j \in (i + 2)..Len(log) : log[j].inv # r.inv /\ r.inv \notin Range(log[j].active)
    /\ i + 2 <= Len(log)
          => LET caller == SubSeq(r.active, 1, Len(r.active) - 1)
             IN /\ Len(log[i + 2].active) >= Len(caller)
                /\ SubSeq(log[i + 2].active, 1, Len(caller)) = caller

\* every return executed inside a user function, in the tree-walker
TreeReturnsEndInvocation ==
    interp.status # "idle" =>
        \A i \in DOMAIN interp.st.log :
            (interp.st.log[i].ev = "return" /\ interp.st.log[i].inv # 0)
                => ReturnEndsInvocation(interp.st.log, i)

\* the instruction the VM executes next (ip is within the code)
AtInstr ==
    /\ vm.v.status = "running"
    /\ vm.v.frames # <<>>
    /\ Top(vm.v).ip >= 0
    /\ Top(vm.v).ip < Len(Top(vm.v).func.chunk.code)

NextInstr == Top(vm.v).func.chunk.code[Top(vm.v).ip + 1]

\* a RET executed in a function's frame pops exactly that frame, leaves the
\* caller's frame as it was (it resumes after its CALL) and leaves the returned
\* value on top of the stack
VMReturnEndsInvocation ==
    (AtInstr /\ NextInstr.op = "RET" /\ Len(vm.v.frames) >= 2 /\ vm.v.stack # <<>>)
        => /\ vm'.v.frames = SubSeq(vm.v.frames, 1, Len(vm.v.frames) - 1)
           /\ vm'.v.stack # <<>>
           /\ peek(vm'.v) = peek(vm.v)
           /\ vm'.v.status = "running"

\* C4: a return executed inside a user function, at any depth of if / while
\* blocks and in either back end, ends exactly the innermost active invocation:
\* nothing more of that invocation runs, the call yields the returned value
\* (none for a bare return) and the caller resumes after the call.
C4_ReturnUnwinds == []TreeReturnsEndInvocation /\ [][VMReturnEndsInvocation]_vars

\* g called f, and f returned from inside an if inside a while; then, on the
\* VM, the RET of that return statement is about to run in a frame above the
\* module's
C4_Witness ==
    /\ \E i \in DOMAIN interp.st.log :
          /\ interp.st.log[i].ev = "return"
          /\ interp.st.log[i].blocks >= 2
          /\ Len(interp.st.log[i].active) >= 2
    /\ AtInstr
    /\ NextInstr.op = "RET"
    /\ NextInstr.col = 37
    /\ Len(vm.v.frames) >= 3

\* C5: after VM.run completes normally the value stack holds exactly one
\* value, and that value is none.
C5_StackHoldsNone == vm.v.status = "ok" => vm.v.stack = <<NoneV>>

\* C5, the run the claim fails on:  x = 1;  leaves [1, None]
C5_Leak ==
    /\ prog = <<AssignX(1)>>
    /\ vm.v.status = "ok"
    /\ vm.v.stack = <<IntV(1), NoneV>>

IsHeader(item) == item.i = "header"
IsTrace(item) == item.i = "trace"
Headers(err) == SelectSeq(err, IsHeader)
Traces(err) == SelectSeq(err, IsTrace)

\* C6: a runtime error raised in the tree-walker while user calls are active
\* carries the stack trace of exactly the invocations active where it was
\* raised, innermost first, each with the line and column of its call site.
C6_TraceIsActiveCalls ==
    (interp.status = "RuntimeError_" /\ interp.origin # <<>>)
        => Traces(interp.err) = <<[i |-> "trace", frames |-> Reverse(interp.origin)]>>

\* C6, the run the claim fails on:
\*   def f() { return g(); }  def g() { x = undef; }  f();
\* the message has four traces, and the last two list f only
C6_FourTraces ==
    /\ prog = <<DefF(1), DefG(2), CallF(3)>>
    /\ interp.status = "RuntimeError_"
    /\ interp.origin = <<<<"f", 3, 2>>, <<"g", 1, 19>>>>
    /\ Traces(interp.err) =
         <<[i |-> "trace", frames |-> <<<<"g", 1, 19>>, <<"f", 3, 2>>>>],
           [i |-> "trace", frames |-> <<<<"g", 1, 19>>, <<"f", 3, 2>>>>],
           [i |-> "trace", frames |-> <<<<"f", 3, 2>>>>],
           [i |-> "trace", frames |-> <<<<"f", 3, 2>>>>]>>

\* C7: a runtime error of the tree-walker reaches the top level rewritten at
\* most once: its message has one source-location header and at most one
\* stack trace.
C7_RewrittenOnce ==
    interp.status = "RuntimeError_"
        => /\ Len(Headers(interp.err)) <= 1
           /\ Len(Traces(interp.err)) <= 1

\* C7, the run the claim fails on:  x = undef;
\* the message starts "[line 1, col 1] [line 1, col 5] Undefined variable"
C7_TwoHeaders ==
    /\ prog = <<AssignUndef(1)>>
    /\ interp.status = "RuntimeError_"
    /\ Headers(interp.err) = <<[i |-> "header", line |-> 1, col |-> 1],
                               [i |-> "header", line |-> 1, col |-> 5]>>

RECURSIVE ChunksOf(_)
ChunksOf(chunk) ==
    {chunk} \cup UNION {ChunksOf(chunk.consts[i].v.chunk) :
                          i \in {j \in DOMAIN chunk.consts : chunk.consts[j].t = "proto"}}

JumpOps == {"JUMP", "JUMP_IF_FALSE", "JUMP_IF_TRUE"}
ConstOps == {"CONST", "LOAD", "STORE", "MAKE_FUNC"}

\* the instruction at index ip (from 0) of chunk has its operand in range
OperandInRange(chunk, ip) ==
    LET ins == chunk.code[ip + 1] IN
    /\ ins.op \in JumpOps =>
          /\ ins.a # NoArg
          /\ ip + 1 + ins.a[1] >= 0
          /\ ip + 1 + ins.a[1] <= Len(chunk.code)
    /\ ins.op \in ConstOps =>
          /\ ins.a # NoArg
          /\ ins.a[1] >= 0
          /\ ins.a[1] < Len(chunk.consts)

\* C9: in every chunk the compiler produces, the module's and each nested
\* function's, every jump at index ip with displacement a has its target
\* ip + 1 + a within [0, len(code)], and every operand of CONST, LOAD, STORE
\* and MAKE_FUNC is an index within [0, len(consts)).
C9_OperandsInRange ==
    vm.v.status # "idle" =>
        \A chunk \in ChunksOf(vm.chunk) :
            \A ip \in 0..(Len(chunk.code) - 1) : OperandInRange(chunk, ip)

\* a compiled module that makes a function whose chunk holds the backward
\* jump of a while loop and a forward conditional jump
C9_Witness ==
    /\ vm.v.status = "compiled"
    /\ \E i \in DOMAIN vm.chunk.code : vm.chunk.code[i].op = "MAKE_FUNC"
    /\ \E chunk \in ChunksOf(vm.chunk) \ {vm.chunk} :
          /\ \E i \in DOMAIN chunk.code :
                chunk.code[i].op = "JUMP" /\ chunk.code[i].a[1] < 0
          /\ \E i \in DOMAIN chunk.code :
                chunk.code[i].op = "JUMP_IF_FALSE" /\ chunk.code[i].a[1] > 0
          /\ Len(chunk.consts) > 1

\* what an and / or expression over the operands must yield: whether it
\* fails, its value, and the lines its evaluation prints
RefOk(val, out) == [err |-> FALSE, val |-> val, out |-> out]
RefErr(out) == [err |-> TRUE, val |-> NoneV, out |-> out]

RECURSIVE Ref(_)
Ref(e) ==
    CASE e.k \in {"Number", "String", "Bool"} -> RefOk(e.value, <<>>)
      [] e.k = "NoneLit" -> RefOk(NoneV, <<>>)
      [] e.k = "ListLit" -> RefOk(ListV(<<>>), <<>>)
      [] e.k = "Var" -> RefErr(<<>>)
      [] e.k = "Call" -> RefOk(NoneV, <<<<"7">>>>)
      [] OTHER ->
            LET a == Ref(e.left)
                b == Ref(e.right)
                skip == IF e.op = "AND" THEN ~truthy(a.val) ELSE truthy(a.val)
            IN IF a.err \/ skip THEN a
               ELSE [err |-> b.err, val |-> b.val, out |-> a.out \o b.out]

IsLogic(p) ==
    /\ Len(p) = 1
    /\ p[1].k = "Assign"
    /\ p[1].name = "r"
    /\ p[1].value.k = "Binary"
    /\ p[1].value.op \in {"AND", "OR"}

\* C10: in both back ends `a and b` yields a itself, without evaluating b,
\* when a is falsy, and else the value of b; `a or b` yields a itself, without
\* evaluating b, when a is truthy, and else the value of b; on the VM the
\* expression leaves exactly one value on the stack.
C10_ShortCircuit ==
    IsLogic(prog) =>
        LET ref == Ref(prog[1].value) IN
        /\ Finished(interp.status) =>
              /\ interp.st.out = ref.out
              /\ IF ref.err THEN interp.status = "RuntimeError_"
                 ELSE /\ interp.status = "ok"
                      /\ get(interp.st.envs, Globals, "r") = [ok |-> TRUE, val |-> ref.val]
        /\ (AtInstr /\ NextInstr.op = "STORE") =>
              /\ ~ref.err
              /\ vm.v.stack = <<ref.val>>
              /\ vm.v.out = ref.out
        /\ Finished(vm.v.status) =>
              /\ vm.v.out = ref.out
              /\ (vm.v.status = "RuntimeError_") = ref.err

\* r = "" and print(7);  both back ends yield "" itself and print nothing
C10_Witness ==
    /\ prog = <<LogicStmt("empty", "AND", "print7")>>
    /\ get(interp.st.envs, Globals, "r") = [ok |-> TRUE, val |-> StrV(<<>>)]
    /\ interp.st.out = <<>>
    /\ AtInstr
    /\ NextInstr.op = "STORE"
    /\ vm.v.stack = <<StrV(<<>>)>>
    /\ vm.v.out = <<>>

\* what print(v) writes for the integer v, as the only line of a run
OneLine(v) == <<PrintLine(<<IntV(v)>>)>>

\* the run of the back end has ended normally and printed exactly `out`
TreePrinted(out) == interp.status = "ok" /\ interp.st.out = out
VMPrinted(out) == vm.v.status = "ok" /\ vm.v.out = out

\* every active VM call runs in a child of the environment its function captured
FramesInClosure ==
    vm.v.status = "running" =>
        \A i \in 2..Len(vm.v.frames) :
            vm.v.envs[vm.v.frames[i].env].parent = vm.v.frames[i].func.closure

\* C11: a user function captures the environment active at its def by
\* reference, in both back ends: a binding changed (or created) in that
\* environment after the def is what the body reads, also for a function
\* defined inside a call; the call's local environment is a child of the
\* captured environment, so the body never sees the caller's locals.
C11_ClosureByReference ==
    /\ FramesInClosure
    /\ \A v1 \in ClosureValues, v2 \in ClosureValues :
          prog = CaptureThenChange(v1, v2) =>
              /\ Finished(interp.status) => TreePrinted(OneLine(v2))
              /\ Finished(vm.v.status) => VMPrinted(OneLine(v2))
    /\ \A v \in ClosureValues :
          /\ prog = CalleeSeesDefiner(v) =>
                /\ Finished(interp.status) => TreePrinted(OneLine(v))
                /\ Finished(vm.v.status) => VMPrinted(OneLine(v))
          /\ prog = InnerCapture(v) =>
                /\ Finished(interp.status) => TreePrinted(OneLine(1 + v))
                /\ Finished(vm.v.status) => VMPrinted(OneLine(1 + v))
    /\ prog = CalleeSeesNoCaller =>
          /\ Finished(interp.status) =>
                interp.status = "RuntimeError_" /\ interp.st.out = <<>>
          /\ Finished(vm.v.status) =>
                /\ vm.v.status = "RuntimeError_" /\ vm.v.out = <<>>
                /\ vm.v.err[2].text = <<"Undefined variable", "y">>

\* C11, its case: x is 1 at the def of f and 2 at the call, and both back ends
\* have printed 2
C11_Witness ==
    /\ prog = CaptureThenChange(1, 2)
    /\ TreePrinted(OneLine(2))
    /\ VMPrinted(OneLine(2))

\* the index the program at hand applies, when it is one of the indexing programs
IsIndexProgram(i) == prog = IndexList(i) \/ prog = IndexStr(i)

\* C13: indexing a list or string with a negative integer, or with an integer
\* >= its length, is a RuntimeError_ in both back ends; a negative index never
\* yields an element.
C13_IndexOutOfRangeIsRuntimeError ==
    \A i \in Indices :
        (IsIndexProgram(i) /\ (i < 0 \/ i >= 2))
            => /\ Finished(interp.status) => (interp.status = "RuntimeError_" /\ interp.st.out = <<>>)
               /\ Finished(vm.v.status) => (vm.v.status = "RuntimeError_" /\ vm.v.out = <<>>)

\* C13, the run the claim fails on:
\*   print([1, 2][-1]);
\* both back ends complete having printed 2, the last element
C13_NegativeIndexFromEnd ==
    /\ prog = IndexList(-1)
    /\ TreePrinted(OneLine(2))
    /\ VMPrinted(OneLine(2))

\* C14: a / b and a % b with b = 0 end the run with a RuntimeError_ whose
\* message carries the source line and column of the operation, in both back
\* ends.
C14_DivisionByZeroIsRuntimeError ==
    prog \in DivPrograms
        => /\ Finished(interp.status)
                => (interp.status = "RuntimeError_" /\ Headers(interp.err) # <<>>)
           /\ Finished(vm.v.status)
                => (vm.v.status = "RuntimeError_" /\ Headers(vm.v.err) # <<>>)

\* C14, the run the claim fails on:
\*   print(1 / 0);
\* Python's ZeroDivisionError leaves both back ends, with no source location
C14_ZeroDivisionEscapes ==
    /\ prog = <<PrintDiv0(1)>>
    /\ interp.status = "HostError" /\ interp.exc = "ZeroDivisionError" /\ interp.err = <<>>
    /\ vm.v.status = "HostError" /\ vm.v.exc = "ZeroDivisionError" /\ vm.v.err = <<>>

\* the message texts of an error
IsText(item) == item.i = "text"
Texts(err) == SelectSeq(err, IsText)

\* the text is an arity message that names the function: "<name>() expected N
\* args, got M"
NamesFunctionAndCounts(text, name, expected, got) ==
    text = <<name, "() expected", ToString(expected), "args, got", ToString(got)>>

\*   def f(a) { while (a < 3) { ... } print(9); return 0; }
\*   f();
ArityProgram == <<DefLoopF(1), CallF(2)>>

\* C15: calling a user function with the wrong number of arguments fails with a
\* runtime error whose message names the function and states the expected and
\* the supplied count, in both back ends; no statement of the body is executed.
C15_ArityErrorNamesFunction ==
    prog = ArityProgram
        => /\ Finished(interp.status)
                => /\ interp.status = "RuntimeError_"
                   /\ interp.st.out = <<>>
                   /\ \A i \in DOMAIN Texts(interp.err) :
                         NamesFunctionAndCounts(Texts(interp.err)[i].text, "f", 1, 0)
           /\ Finished(vm.v.status)
                => /\ vm.v.status = "RuntimeError_"
                   /\ vm.v.out = <<>>
                   /\ \A i \in DOMAIN Texts(vm.v.err) :
                         NamesFunctionAndCounts(Texts(vm.v.err)[i].text, "f", 1, 0)

\* C15, the run the claim fails on: the tree-walker reports "f() expected 1
\* args, got 0", the VM reports "Function expected 1 args, got 0"
C15_VMOmitsName ==
    /\ prog = ArityProgram
    /\ interp.status = "RuntimeError_"
    /\ Texts(interp.err)[1].text = <<"f", "() expected", "1", "args, got", "0">>
    /\ vm.v.status = "RuntimeError_"
    /\ vm.v.out = <<>>
    /\ Texts(vm.v.err) = <<[i |-> "text", text |-> <<"Function expected", "1", "args, got", "0">>]>>

\* C16: a return statement executed at top level ends the run with a
\* RuntimeError_ or ends the module normally, without running what follows
\* it; the return signal does not leave the run as another kind of failure.
C16_TopLevelReturnContained ==
    /\ (interp.pc \in DOMAIN prog /\ prog[interp.pc].k = "Return")
          => interp.status \in {"ok", "RuntimeError_"}
    /\ (prog[1].k = "Return" /\ Finished(interp.status)) => interp.st.out = <<>>
    /\ (prog[1].k = "Return" /\ Finished(vm.v.status))
          => (vm.v.status \in {"ok", "RuntimeError_"} /\ vm.v.out = <<>>)

\* C16, the run the claim fails on:
\*   return 7;
\* ReturnSignal leaves Interpreter.run; the VM ends the module with 7 on its
\* stack
C16_ReturnSignalEscapes ==
    /\ prog = <<Return7(1)>>
    /\ interp.status = "ReturnSignal"
    /\ vm.v.status = "ok"
    /\ vm.v.stack = <<IntV(7)>>

\* the import of a path whose file does not exist, executed in the
\* interpreter's present state: a RuntimeError_ that changes nothing, and the
\* same again when the import is repeated
MissingImportFails(path) ==
    LET st == interp.st
        unchanged(r) ==
            /\ r.status = "RuntimeError_"
            /\ Texts(r.err)[1].text = <<"Import not found:">> \o path
            /\ r.st.envs = st.envs
            /\ r.st.out = st.out
            /\ r.st.loads = st.loads
            /\ r.st.execs = st.execs
            /\ r.st.imported = st.imported
        again(r) == unchanged(r) /\ unchanged(exec_stmt(ImportOf(9, path), Globals, r.st))
    IN again(exec_stmt(ImportOf(9, path), Globals, st))

Parsed == front.status = "given" /\ front.parsed # NotRun

\* C18: the parser groups the operands of every expression by the precedence
\* table, operators of one level from left to right, a prefix - or not
\* tighter than every binary operator, and a call or index suffix tighter than
\* a prefix operator: the text of an expression, parenthesised only where
\* these rules require it, is parsed into that expression.
C18_PrecedenceGrouping ==
    (Parsed /\ front.tree # Absent)
        => /\ front.parsed.status = "ok"
           /\ Len(front.parsed.node) = 1
           /\ Shape(front.parsed.node[1]) = ExprStmt(front.tree)

\*   a - a * a - a ;   is parsed as   (a - (a * a)) - a
C18_Witness ==
    /\ Parsed
    /\ [j \in DOMAIN front.toks |-> front.toks[j].kind]
         = <<"IDENT", "MINUS", "IDENT", "STAR", "IDENT", "MINUS", "IDENT", "SEMI", "EOF">>
    /\ front.parsed.status = "ok"
    /\ front.parsed.node[1].expr.optok = <<1, 11>>
    /\ front.parsed.node[1].expr.left.optok = <<1, 3>>
    /\ front.parsed.node[1].expr.left.right.optok = <<1, 7>>
    /\ front.parsed.node[1].expr.right = Var(<<"a">>, <<1, 13>>)

\* lex was applied to the source text
Lexed == front.status = "given" /\ front.lexed # NotRun
Kinds(toks) == [j \in DOMAIN toks |-> toks[j].kind]

\* C19: the front end accepts import STRING ; : the lexer emits an IMPORT
\* keyword token for the word import, and the parser makes of the statement an
\* Import node whose path is the contents of the string.
C19_ImportAccepted ==
    /\ (Lexed /\ front.src = ImportText)
          => /\ front.lexed.status = "ok"
             /\ Kinds(front.lexed.tokens) = <<"IMPORT", "STRING", "SEMI", "EOF">>
    /\ (Parsed /\ front.toks = Layout(ImportItems, 1, 1))
          => /\ front.parsed.status = "ok"
             /\ front.parsed.node = <<Import(<<1, 8>>, <<"m", ".", "r", "a", "f">>)>>

\* C19, the run the claim fails on:
\*   import "m.raf";
\* lexer.py cannot be executed: its KEYWORDS names TokenKind.IMPORT, which
\* tokens.py does not define
C19_LexerNotLoaded ==
    /\ Lexed
    /\ front.src = ImportText
    /\ "IMPORT" \notin TokenKind
    /\ front.lexed.status = "AttributeError"
    /\ front.lexed.tokens = <<>>

\* the places of the opening braces that have no closing brace, outermost first
RECURSIVE OpenBraces(_, _, _)
OpenBraces(toks, j, open) ==
    IF j > Len(toks) THEN open
    ELSE IF toks[j].kind = "LBRACE" THEN OpenBraces(toks, j + 1, Append(open, TokPos(toks[j])))
    ELSE IF toks[j].kind = "RBRACE" /\ open # <<>>
         THEN OpenBraces(toks, j + 1, SubSeq(open, 1, Len(open) - 1))
    ELSE OpenBraces(toks, j + 1, open)

\* the input ends inside a block, after its opening brace or after a whole
\* statement of it
EndsInsideBlock(toks) ==
    /\ OpenBraces(toks, 1, <<>>) # <<>>
    /\ Len(toks) >= 2
    /\ toks[Len(toks) - 1].kind \in {"LBRACE", "SEMI", "RBRACE"}

\* C20: when a block's opening { has no matching } before the end of input,
\* the parser fails with a parse error whose line and column are those of the
\* opening brace of that block.
C20_ReportedAtOpeningBrace ==
    (Parsed /\ EndsInsideBlock(front.toks))
        => /\ front.parsed.status = "ParseError"
           /\ <<front.parsed.line, front.parsed.col>> \in Range(OpenBraces(front.toks, 1, <<>>))

\* C20, the run the claim fails on:
\*   while ( a ) {
\*   x = 1 ;
\* the brace is at line 1, column 13; the error is reported at the EOF token,
\* line 2, column 9
C20_ReportedAtEOF ==
    /\ Parsed
    /\ Kinds(front.toks) = <<"WHILE", "LPAREN", "IDENT", "RPAREN", "LBRACE",
                             "IDENT", "EQ", "NUMBER", "SEMI", "EOF">>
    /\ OpenBraces(front.toks, 1, <<>>) = <<<<1, 13>>>>
    /\ front.parsed.status = "ParseError"
    /\ front.parsed.msg = "Unterminated block (missing '}')"
    /\ <<front.parsed.line, front.parsed.col>> = TokPos(front.toks[Len(front.toks)])
    /\ <<front.parsed.line, front.parsed.col>> = <<2, 9>>


(***************************************************************************)
(* C21..C27                                                                *)
(***************************************************************************)
EofCount(tokens) == Cardinality({k \in 1..Len(tokens) : tokens[k].kind = "EOF"})

\* lex has returned its token list
LexReturned == front.status = "ok" /\ "src" \in DOMAIN front

\* a returned token list holds one EOF token, its last element
EndsInOneEOF ==
    LexReturned =>
        /\ Len(front.tokens) >= 1
        /\ front.tokens[Len(front.tokens)].kind = "EOF"
        /\ EofCount(front.tokens) = 1
        /\ \A k \in 1..Len(front.tokens) : front.tokens[k].kind \in TokenKindWithImport

\* an iteration of the loop consumes at least one character and never more
\* than the text has left, or raises the LexError
IterationAdvances ==
    (front.status = "lexing" /\ front.i < Len(front.src)) =>
        \/ front'.status = "LexError"
        \/ /\ front'.status = "lexing"
           /\ front'.i > front.i
           /\ front'.i <= Len(front.src)
           /\ EofCount(front'.tokens) = 0

SubmittedAndSettled ==
    /\ front.status = "input"
    /\ \/ front'.last \in {"ok", "LexError", "ParseError", "RuntimeError_"}
       \/ front'.last = "HostError" /\ front'.exc \in {"ZeroDivisionError", "TypeError"}

PromptTellsBuffer ==
    front.status = "input" => (front.prompt = "... " <=> front.buffer # <<>>)

\* C22: after any submitted buffer, whether it ran or failed with a lex,
\* parse or runtime error (division by zero and operator type mismatch
\* included), the REPL loop continues with an empty buffer and the prompt
\* ">>> "; the prompt is "... " exactly when the buffer is non-empty.
C22_ReplContinues ==
    /\ [][SubmittedAndSettled =>
            /\ front'.status = "input"
            /\ front'.buffer = <<>>
            /\ front'.prompt = ">>> "]_vars
    /\ []PromptTellsBuffer

\* after x = 1; ran, print(1 / 0); ends the loop with ZeroDivisionError
C22_ReplLeftByZeroDivision ==
    /\ front.status = "raised"
    /\ front.exc = "ZeroDivisionError"
    /\ front.read = 2
    /\ get(interp.st.envs, interp.env, "x").ok


\* the step pops the frame of a user function's call (not the module's frame)
PopsCalleeFrame ==
    /\ vm.v.status = "running"
    /\ Len(vm.v.frames) >= 2
    /\ Len(vm'.v.frames) = Len(vm.v.frames) - 1

\* C23: when the frame of a call of a compiled user function is popped, the
\* value stack equals the stack as it was just below the callee value plus
\* exactly one value, the call's result, whatever the body executed.
C23_CallLeavesOnlyResult ==
    [][PopsCalleeFrame =>
          /\ vm'.v.stack # <<>>
          /\ vm'.v.stack = Append(vm.below[Len(vm.below)], peek(vm'.v))]_vars

\* def f(a) { while (a < 3) { if (a) { return a; } a = a + 1; } ... }
\* print(f(0));   f has returned 1 to the module: the 1 its assignment left
\* lies between print and the result
C23_AssignmentLeftUnderResult ==
    /\ prog = <<DefLoopF(1), PrintF(2)>>
    /\ vm.v.status = "running"
    /\ Len(vm.v.frames) = 1
    /\ Len(vm.v.stack) = 4
    /\ vm.v.stack[2] = BuiltinV("print")
    /\ SubSeq(vm.v.stack, 3, 4) = <<IntV(1), IntV(1)>>


\* the index in the module chunk's code where the code of the first k
\* statements of the program ends and that of the next one begins
StatementEnd(k) ==
    Len(compile_stmts(NewChunk(<<"<module>">>), SubSeq(prog, 1, k)).chunk.code)

\* the module's frame is about to run the first instruction of a statement,
\* or has run the last instruction of the last one
BetweenStatements ==
    /\ vm.v.status = "running"
    /\ Len(vm.v.frames) = 1
    /\ \E k \in 0..Len(prog) : Top(vm.v).ip = StatementEnd(k)

\* C24: every complete statement is stack-neutral on the VM: run starts with
\* an empty stack, so wherever a statement of the module begins or has ended
\* (a while loop's head on every iteration included) the stack is empty.
C24_StatementsStackNeutral == BetweenStatements => vm.v.stack = <<>>

\* x = 1; while (x < 3) { x = x + 1; }   the loop's head is reached a third
\* time: each assignment has left its value
C24_LoopHeadDeepens ==
    /\ prog = <<AssignX(1), WhileX(2)>>
    /\ vm.v.status = "running"
    /\ Len(vm.v.frames) = 1
    /\ Top(vm.v).ip = StatementEnd(1)
    /\ vm.v.stack = <<IntV(1), IntV(2), IntV(3)>>


\* if (c) { name = 7; } else { name = 8; }
IfProbe(name, c) ==
    If(P(9, 1), Bool(c, P(9, 5)),
       Block(P(9, 11), <<Assign(name, P(9, 13), Num(7, 9, 17))>>),
       Block(P(9, 27), <<Assign(name, P(9, 29), Num(8, 9, 33))>>))

\* i = 0; while (i < 2) { if (i == 1) { print(t); } t = 7; i = i + 1; }
LoopProbe ==
    <<Assign("i", P(8, 1), Num(0, 8, 5)),
      While(P(9, 1), Bin(V("i", 9, 8), "LT", 9, 10, Num(2, 9, 12)),
            Block(P(9, 15),
                  <<If(P(9, 17), Bin(V("i", 9, 21), "EQEQ", 9, 23, Num(1, 9, 26)),
                       Block(P(9, 29), <<PrintOf(9, V("t", 9, 37))>>), Absent),
                    Assign("t", P(9, 44), Num(7, 9, 48)),
                    Assign("i", P(9, 51),
                           Bin(V("i", 9, 55), "PLUS", 9, 57, Num(1, 9, 59)))>>))>>

\* the if statement run in environment e of the state st: the branch taken
\* runs in a new environment whose parent is e; a name bound on the chain of
\* e is updated where it is bound, a name bound nowhere is bound in the new
\* environment only and cannot be read from e afterwards
BranchRunsInChild(st, e, name, c) ==
    LET binder == NearestBinder(st.envs, e, name)
        value == IntV(IF c THEN 7 ELSE 8)
        n == Len(st.envs)
        holds(r) ==
            /\ r.status = "ok"
            /\ Len(r.st.envs) = n + 1
            /\ r.st.envs[n + 1].parent = e
            /\ IF binder # 0
               THEN /\ r.st.envs[n + 1].values = EmptyValues
                    /\ OnlyBindingChanged(st.envs, SubSeq(r.st.envs, 1, n), binder, name,
                                          value)
               ELSE /\ SubSeq(r.st.envs, 1, n) = st.envs
                    /\ r.st.envs[n + 1].values = (name :> value)
                    /\ ~get(r.st.envs, e, name).ok
    IN holds(exec_stmt(IfProbe(name, c), e, st))

\* the loop run in environment e: the first iteration binds t in its own
\* environment and updates i outside it; the second iteration has a new,
\* empty environment, so reading t there fails
IterationRunsInFreshChild(st, e) ==
    LET n == Len(st.envs)
        holds(r) ==
            /\ r.status = "RuntimeError_"
            /\ Texts(r.err)[1].text = <<"Undefined variable", "t">>
            /\ Len(r.st.envs) = n + 3
            /\ r.st.envs[n + 1] = [parent |-> e, values |-> ("t" :> IntV(7))]
            /\ r.st.envs[n + 2] = [parent |-> e, values |-> EmptyValues]
            /\ r.st.envs[n + 3] = [parent |-> n + 2, values |-> EmptyValues]
            /\ get(r.st.envs, e, "i") = [ok |-> TRUE, val |-> IntV(1)]
            /\ ~get(r.st.envs, e, "t").ok
    IN holds(exec_stmts(LoopProbe, e, st))

\* the names the module's statements executed so far assign or define
TopLevelNames ==
    {prog[k].name : k \in {j \in 1..interp.pc : prog[j].k \in {"Assign", "Def"}}}

\* what blocks and calls bind does not reach the global environment
BlockNamesStayInside ==
    (mainFile = <<>> /\ NoImport(prog))
        => DOMAIN interp.st.envs[Globals].values \subseteq {"print", "len"} \cup TopLevelNames

\* C25: in the tree-walker each execution of an if branch and each iteration
\* of a while body runs in a fresh child environment: a name first bound in
\* the block is not visible after the block nor in the next iteration, and an
\* assignment to a name bound outside the block updates the outer binding.
C25_BlocksRunInFreshEnv ==
    /\ BlockNamesStayInside
    /\ interp.status \in {"running", "ok"} =>
          LET st == [interp.st EXCEPT !.fuel = MaxFuel] IN
          \A e \in DOMAIN st.envs :
              /\ \A name \in {"x", "y", "t"} : \A c \in BOOLEAN :
                    BranchRunsInChild(st, e, name, c)
              /\ IterationRunsInFreshChild(st, e)

\* x = 1; if (x < 2) { y = 5; print(y); } else { x = 0; } print(y);
\* the branch printed 5 and bound y in its own environment, and print(y)
\* after the if fails
C25_Witness ==
    /\ prog = <<AssignX(1), IfX(2), PrintY(3)>>
    /\ interp.status = "RuntimeError_"
    /\ interp.st.out = <<<<"5">>>>
    /\ interp.st.envs[2] = [parent |-> Globals, values |-> ("y" :> IntV(5))]
    /\ Texts(interp.err)[1].text = <<"Undefined variable", "y">>


IsSnippet(item) == item.i = "snippet"
Snippets(err) == SelectSeq(err, IsSnippet)

\* the paths import statements are tried with
ProbedPaths == PathsNamed \cup {<<"lex.raf">>, <<"n.raf">>}

\* a top-level statement, an import of any outcome included, leaves the
\* interpreter's source and base directory as they were
StatementKeepsSource ==
    interp.status = "running"
        => /\ interp'.st.src = interp.st.src
           /\ interp'.st.base_dir = interp.st.base_dir

\* an import of path executed next, whatever it does
ImportRestores(st, path) ==
    LET holds(r) == r.st.src = st.src /\ r.st.base_dir = st.base_dir
    IN holds(exec_stmt(ImportOf(9, path), Globals, st))

\* an import that loads lib/n.raf (import "m.raf"; print(sq(2)); print(u);):
\* its import resolves against lib, and after that nested import the error of
\* print(u) quotes n.raf at every level that rewrites it
ModuleRunsAsItself(st, path) ==
    LET holds(r) ==
            /\ r.status = "RuntimeError_"
            /\ r.st.loads = st.loads \o <<FileN>>
                            \o (IF FileM \in st.imported THEN <<>> ELSE <<FileM>>)
            /\ Len(Snippets(r.err)) = 2
            /\ \A k \in 1..Len(Snippets(r.err)) : Snippets(r.err)[k].src = FileN
    IN (resolve_import_path(st.base_dir, path) = FileN /\ FileN \notin st.imported)
          => holds(exec_stmt(ImportOf(9, path), Globals, st))

ImportsRestore ==
    interp.status # "fuel" =>
        LET st == [interp.st EXCEPT !.fuel = MaxFuel] IN
        \A path \in ProbedPaths : ImportRestores(st, path) /\ ModuleRunsAsItself(st, path)

HandledOps ==
    {"CONST", "POP", "LOAD", "STORE", "NEG", "NOT", "ADD", "SUB", "MUL", "DIV", "MOD",
     "EQ", "NEQ", "LT", "LTE", "GT", "GTE", "JUMP", "JUMP_IF_FALSE", "JUMP_IF_TRUE",
     "BUILD_LIST", "INDEX", "MAKE_FUNC", "CALL", "RET"}

\* the number of stack values the instruction pops or peeks
Consumes(ins) ==
    CASE ins.op \in {"POP", "STORE", "JUMP_IF_FALSE", "JUMP_IF_TRUE", "NEG", "NOT",
                     "RET"} -> 1
      [] ins.op \in {"ADD", "SUB", "MUL", "DIV", "MOD", "EQ", "NEQ", "LT", "LTE", "GT",
                     "GTE", "INDEX"} -> 2
      [] ins.op \in {"CALL", "BUILD_LIST"} -> (IF ins.a = NoArg THEN 0 ELSE ins.a[1])
                                              + (IF ins.op = "CALL" THEN 1 ELSE 0)
      [] OTHER -> 0

\* the instruction about to execute is one _step handles and the stack holds
\* the values it consumes
OperandsPresent ==
    AtInstr => /\ NextInstr.op \in HandledOps
               /\ Len(vm.v.stack) >= Consumes(NextInstr)

\* the run did not end in one of the VM's two invariant-violation errors
NoInvariantViolation ==
    vm.v.status = "RuntimeError_" =>
        \A i \in DOMAIN Texts(vm.v.err) :
            Texts(vm.v.err)[i].text[1] \notin {"Stack underflow", "Unknown opcode:"}

\* C27: running the chunk the compiler produced from a program, the VM never
\* raises 'Stack underflow' or 'Unknown opcode': every instruction it reaches
\* is one it handles and finds the operands it consumes on the value stack,
\* inside loops and nested calls as well.
C27_NoUnderflowNoUnknownOpcode == OperandsPresent /\ NoInvariantViolation

\*   def f(a) { while (a < 3) { if (a) { return a; } a = a + 1; } ... }
\*   def g(a) { y = f(a); return y + 1; }
\*   print(g(1));
\* the RET inside the loop of f, called from g: its operand 1 is on the stack
C27_Witness ==
    /\ prog = <<DefLoopF(1), DefCallG(2), PrintG(3)>>
    /\ AtInstr
    /\ Len(vm.v.frames) = 3
    /\ NextInstr.op = "RET"
    /\ Len(vm.v.stack) = 4
    /\ peek(vm.v) = IntV(1)

=============================================================================
